---- MODULE Spec2Model ----
(***************************************************************************)
(* context-carry: the adapters that normalise provider exports (ChatGPT,   *)
(* Claude.ai web, Claude Code, Cowork) into canonical conversations, and   *)
(* the provider detector.                                                  *)
(*                                                                         *)
(* Strings are sequences of atoms; " " and "\n" are the whitespace atoms,  *)
(* every other atom is a run of non-whitespace characters.  An absent JS   *)
(* value is Undef (a name) or UndefText (a text).  Raw timestamps are      *)
(* tagged values; an instant is its epoch-millisecond number.              *)
(***************************************************************************)
EXTENDS Integers, Sequences, FiniteSets, TLC

VARIABLES
    adapter,     \* the adapter under run: "chatgpt", "claude-web", "claude-code", "cowork", "detect"
    input,       \* the export on disk (a document or a directory tree); never written
    pc,          \* position of the running generator / function
    idx,         \* index of the item (conversation, session) the generator is at
    sidx,        \* Claude Code: index of the session file inside the project directory
    sessions,    \* Cowork: the sessions discoverAllSessions found, in Map order
    detected,    \* detectProvider: the provider returned ("none" while probing, "null" for null)
    currentId,   \* linearizeDAG: the cursor
    result,      \* linearizeDAG: the node ids emitted so far
    yielded,     \* the conversations the consumer has pulled so far
    pulls,       \* Claude Code, Cowork: the next() calls the consumer has made
    reads,       \* Claude Code, Cowork: the log files read so far, in order
    previous     \* what the earlier parse call over the same export gave

vars == <<adapter, input, pc, idx, sidx, sessions, detected, currentId, result, yielded,
          pulls, reads, previous>>

\* ---------------------------------------------------------------- bounds
MaxConvs == 2      \* conversations in one conversations.json
MaxNodes == 3      \* nodes of a mapping in the linearization study
MaxVisit == 5      \* cap on the nodes one walk may emit (the code has none)
MaxDirs == 2       \* names a projects directory may hold
MaxLog == 2        \* records of one log in the merge study
MaxTs == 2         \* distinct timestamps in the merge study
MaxSec == 30       \* second counts (units of 10^8) in the timestamp study

\* ---------------------------------------------------------------- values
Undef == "undefined"
UndefText == <<"undefined">>
NoArray == <<[undefined |-> TRUE]>>
Roles == {"user", "assistant", "system", "tool"}

IsWs(c) == c \in {" ", "\n"}

RECURSIVE SumSeq(_)
SumSeq(s) == IF s = <<>> THEN 0 ELSE Head(s) + SumSeq(Tail(s))

RECURSIVE JoinWith(_, _)
JoinWith(strs, sep) ==
    IF strs = <<>> THEN <<>>
    ELSE IF Len(strs) = 1 THEN Head(strs)
    ELSE Head(strs) \o sep \o JoinWith(Tail(strs), sep)

OrElse(v, dflt) == IF v = Undef THEN dflt ELSE v
TextOrEmpty(t) == IF t = UndefText THEN <<>> ELSE t

\* text.split(/\s+/).filter(w => w.length > 0).length
countWords(text) ==
    IF text = <<>> THEN 0
    ELSE Cardinality({i \in 1..Len(text) :
            /\ ~IsWs(text[i])
            /\ (i = 1 \/ IsWs(text[i - 1]))})

\* one line per part
PartLine(p) ==
    IF p.type \in {"text", "thinking", "code"} THEN TextOrEmpty(p.text)
    ELSE IF p.type = "tool_call"
        THEN <<"[Tool:", " ", OrElse(p.tool_name, "unknown"), "]", " ">> \o TextOrEmpty(p.text)
    ELSE IF p.type = "tool_result"
        THEN <<"[Result:", " ", OrElse(p.tool_name, "unknown"), "]", " ">> \o TextOrEmpty(p.text)
    ELSE IF p.type = "image" THEN <<"[Image:", " ", OrElse(p.file_name, "image"), "]">>
    ELSE IF p.type = "file" THEN <<"[File:", " ", OrElse(p.file_name, "file"), "]">>
    ELSE <<>>

flattenContentToText(parts) ==
    JoinWith(SelectSeq([i \in 1..Len(parts) |-> PartLine(parts[i])],
                       LAMBDA l : l # <<>>),
             <<"\n">>)

Part(type, text, tool, file) ==
    [type |-> type, text |-> text, tool_name |-> tool, file_name |-> file]
TextPart(t) == Part("text", t, Undef, Undef)

\* ---------------------------------------------------------------- timestamps
Absent == [k |-> "absent"]
Num(n) == [k |-> "num", v |-> n]
\* a string: ord is its rank in string order, inst the instant Date parses
\* it to (-1 when Date cannot parse it)
Str(ord, inst) == [k |-> "str", ord |-> ord, inst |-> inst]
\* the numbers that are no finite number, and a value of another type
NaN == [k |-> "nan"]
Infinite == [k |-> "inf"]
OtherType == [k |-> "other"]
Truthy(v) ==
    ~(v.k \in {"absent", "nan"} \/ (v.k = "num" /\ v.v = 0) \/ (v.k = "str" /\ v.ord = 0))

\* numbers are counted in units of 10^8, so that 1e12 is 10000 and the
\* second count 1700000000 is 17; the code's comparison and its
\* multiplication by 1000 are unchanged by the unit
MsThreshold == 10000
\* the largest time value of a Date, 8.64e15 ms, in the same unit
MaxDate == 86400000

\* an ISO 8601 string is modelled by the instant it names
Iso(inst) == [k |-> "iso", inst |-> inst]
Epoch == Iso(0)
RangeError == [k |-> "RangeError"]

\* value > 1e12 ? value : value * 1000
EpochMs_AlwaysSeconds(v) == v * 1000
EpochMs(v) == IF v > MsThreshold THEN v ELSE v * 1000

\* new Date(ms).toISOString(): a RangeError outside the range of Date
DateToIso(ms) == IF ms > MaxDate \/ ms < -MaxDate THEN RangeError ELSE Iso(ms)

toIsoTimestamp(value) ==
    IF value.k = "absent" THEN Epoch
    ELSE IF value.k = "num" THEN DateToIso(EpochMs(value.v))
    ELSE IF value.k \in {"nan", "inf"} THEN RangeError
    ELSE IF value.k = "str" /\ value.inst >= 0 THEN Iso(value.inst)
    ELSE Epoch

\* ---------------------------------------------------------------- canonical model
Message(id, role, content, text, wc, created, model) ==
    [source_id |-> id, role |-> role, content |-> content, text |-> text,
     word_count |-> wc, created_at |-> created, model |-> model,
     is_subagent |-> FALSE]

\* [...modelCounts.entries()].sort((a, b) => b[1] - a[1])[0]?.[0]
\* models: the model of every counted message, in encounter order
CountOf(models, m) == Cardinality({i \in 1..Len(models) : models[i] = m})
FirstAt(models, m) == CHOOSE i \in 1..Len(models) :
    models[i] = m /\ \A j \in 1..(i - 1) : models[j] # m
PrimaryModel_LastSeen(models) ==
    IF models = <<>> THEN Undef
    ELSE LET ms == {models[i] : i \in 1..Len(models)}
         IN CHOOSE m \in ms : \A o \in ms :
                \/ CountOf(models, m) > CountOf(models, o)
                \/ /\ CountOf(models, m) = CountOf(models, o)
                   /\ FirstAt(models, m) >= FirstAt(models, o)
PrimaryModel(models) ==
    IF models = <<>> THEN Undef
    ELSE LET ms == {models[i] : i \in 1..Len(models)}
         IN CHOOSE m \in ms : \A o \in ms :
                \/ CountOf(models, m) > CountOf(models, o)
                \/ /\ CountOf(models, m) = CountOf(models, o)
                   /\ FirstAt(models, m) <= FirstAt(models, o)

Words(msgs) == [i \in 1..Len(msgs) |-> msgs[i].word_count]

Conversation(id, provider, created, msgs, total, model, project) ==
    [source_id |-> id, provider |-> provider, created_at |-> created,
     message_count |-> Len(msgs), total_words |-> total,
     model |-> model, project_source_id |-> project, messages |-> msgs]

Null == [null |-> TRUE]
Thrown == [thrown |-> TRUE]

\* ---------------------------------------------------------------- ChatGPT
NoList == <<-1>>
NoMsg == [def |-> FALSE]
Node(parent, children, message) ==
    [parent |-> parent, children |-> children, message |-> message]
RawMsg(id, author, content, model) ==
    [def |-> TRUE, id |-> id, author |-> author, content |-> content,
     create_time |-> Absent, model_slug |-> model]
RawContent(ctype, parts) == [content_type |-> ctype, parts |-> parts]
NoContent == [content_type |-> Undef]
StrPart(t) == [kind |-> "string", text |-> t]
ImagePart == [kind |-> "image", text |-> <<>>]

InMapping(mapping, id) == id \in 1..Len(mapping)

\* for (const [id, node] of Object.entries(mapping)) if (!node.parent || !(node.parent in mapping))
IsRoot(mapping, id) ==
    mapping[id].parent = 0 \/ ~InMapping(mapping, mapping[id].parent)
FindRoot(mapping) ==
    IF \E id \in 1..Len(mapping) : IsRoot(mapping, id)
    THEN CHOOSE id \in 1..Len(mapping) :
            IsRoot(mapping, id) /\ \A j \in 1..(id - 1) : ~IsRoot(mapping, j)
    ELSE 0

\* node.children.length > 0 ? node.children[node.children.length - 1] : undefined
NextChild_First(children) == IF Len(children) > 0 THEN children[1] ELSE 0
NextChild(children) == IF Len(children) > 0 THEN children[Len(children)] ELSE 0

TrimNonEmpty(t) == \E i \in 1..Len(t) : ~IsWs(t[i])

RECURSIVE ExtractParts(_, _)
ExtractParts(ctype, parts) ==
    IF parts = <<>> THEN <<>>
    ELSE LET p == Head(parts)
             rest == ExtractParts(ctype, Tail(parts))
         IN IF ctype = "text"
                THEN (IF p.kind = "string" /\ TrimNonEmpty(p.text)
                        THEN <<TextPart(p.text)>> \o rest ELSE rest)
            ELSE IF ctype = "code"
                THEN (IF p.kind = "string"
                        THEN <<Part("code", p.text, Undef, Undef)>> \o rest ELSE rest)
            ELSE IF ctype = "multimodal_text"
                THEN (IF p.kind = "string" THEN <<TextPart(p.text)>> \o rest
                      ELSE IF p.kind = "image"
                        THEN <<Part("image", UndefText, Undef, "image")>> \o rest
                      ELSE rest)
            ELSE rest

extractContent(content) == ExtractParts(content.content_type, content.parts)

\* the loop of parseConversation over the linearized nodes; a TypeError
\* (msg.author or msg.content undefined) or a RangeError of toIsoTimestamp
\* ends it with Thrown
RECURSIVE BuildMessages(_, _, _)
BuildMessages(conv, nodes, acc) ==
    IF nodes = <<>> THEN [thrown |-> FALSE, msgs |-> acc]
    ELSE LET msg == conv.mapping[Head(nodes)].message
         IN IF ~msg.def THEN BuildMessages(conv, Tail(nodes), acc)
            ELSE IF msg.author = Undef THEN [thrown |-> TRUE, msgs |-> acc]
            ELSE IF msg.author \notin Roles THEN BuildMessages(conv, Tail(nodes), acc)
            ELSE IF msg.content = NoContent THEN [thrown |-> TRUE, msgs |-> acc]
            ELSE LET contentParts == extractContent(msg.content)
                     text == flattenContentToText(contentParts)
                     createdAt == IF Truthy(msg.create_time)
                                    THEN toIsoTimestamp(msg.create_time)
                                    ELSE toIsoTimestamp(conv.create_time)
                 IN IF text = <<>> /\ msg.author # "system"
                      THEN BuildMessages(conv, Tail(nodes), acc)
                    ELSE IF createdAt = RangeError THEN [thrown |-> TRUE, msgs |-> acc]
                    ELSE BuildMessages(conv, Tail(nodes), Append(acc,
                             Message(msg.id, msg.author, contentParts, text,
                                     countWords(text), createdAt, msg.model_slug)))

AssistantModels(msgs) ==
    LET sel == SelectSeq(msgs, LAMBDA m : m.role = "assistant" /\ m.model # Undef)
    IN [i \in 1..Len(sel) |-> sel[i].model]

\* parseConversation after linearizeDAG: Null, Thrown or the conversation
ChatGPTConversation(conv, linearized) ==
    IF linearized = <<>> THEN Null
    ELSE LET b == BuildMessages(conv, linearized, <<>>)
         IN IF b.thrown THEN Thrown
            ELSE IF b.msgs = <<>> THEN Null
            ELSE IF toIsoTimestamp(conv.create_time) = RangeError THEN Thrown
            ELSE Conversation(conv.id, "chatgpt", toIsoTimestamp(conv.create_time),
                              b.msgs, SumSeq(Words(b.msgs)),
                              PrimaryModel(AssistantModels(b.msgs)), conv.gizmo_id)

\* parse: the for loop takes the next conversation, or the generator returns;
\* linearizeDAG starts by finding the root
CgNext ==
    /\ adapter = "chatgpt" /\ pc = "next"
    /\ IF idx > Len(input)
         THEN /\ pc' = "done"
              /\ UNCHANGED <<idx, currentId, result>>
         ELSE /\ pc' = "walk"
              /\ currentId' = FindRoot(input[idx].mapping)
              /\ result' = <<>>
              /\ UNCHANGED idx
    /\ UNCHANGED <<adapter, input, sidx, sessions, detected, yielded,
                 pulls, reads, previous>>

\* linearizeDAG: one iteration of while (currentId)
CgWalk ==
    /\ adapter = "chatgpt" /\ pc = "walk"
    /\ currentId # 0
    /\ Len(result) < MaxVisit
    /\ LET mapping == input[idx].mapping
       IN IF ~InMapping(mapping, currentId)
            THEN /\ currentId' = 0
                 /\ UNCHANGED <<result, pc>>
            ELSE /\ result' = Append(result, currentId)
                 /\ IF mapping[currentId].children = NoList
                      THEN pc' = "thrown" /\ UNCHANGED currentId
                      ELSE /\ currentId' = NextChild(mapping[currentId].children)
                           /\ UNCHANGED pc
    /\ UNCHANGED <<adapter, input, idx, sidx, sessions, detected, yielded,
                 pulls, reads, previous>>

\* the rest of parseConversation, and the yield
CgBuild ==
    /\ adapter = "chatgpt" /\ pc = "walk"
    /\ currentId = 0
    /\ LET c == ChatGPTConversation(input[idx], result)
       IN IF c = Thrown THEN pc' = "thrown" /\ UNCHANGED <<idx, yielded>>
          ELSE /\ pc' = "next"
               /\ idx' = idx + 1
               /\ yielded' = IF c = Null THEN yielded ELSE Append(yielded, c)
    /\ UNCHANGED <<adapter, input, sidx, sessions, detected, currentId, result,
                 pulls, reads, previous>>

NextChatGPT == CgNext \/ CgWalk \/ CgBuild

\* ---------------------------------------------------------------- ChatGPT inputs
SeqsUpTo(S, n) == UNION {[1..k -> S] : k \in 0..n}
NonEmptySeqsUpTo(S, n) == UNION {[1..k -> S] : k \in 1..n}

TextAB == <<"a", " ", "b">>
TextY == <<"Y">>
TextBlank == <<" ">>

\* the message a node of a document-level conversation may carry
NodeMsgs ==
    { NoMsg,
      RawMsg("m-user", "user", RawContent("text", <<StrPart(TextAB)>>), Undef),
      RawMsg("m-blank", "user", RawContent("text", <<StrPart(TextBlank)>>), Undef),
      RawMsg("m-asst", "assistant", RawContent("multimodal_text", <<StrPart(TextY), ImagePart>>), "gpt-4"),
      RawMsg("m-sys", "system", RawContent("text", <<>>), Undef),
      RawMsg("m-other", "critic", RawContent("text", <<StrPart(TextY)>>), Undef),
      RawMsg("m-noauthor", Undef, RawContent("text", <<StrPart(TextY)>>), Undef),
      RawMsg("m-nocontent", "tool", NoContent, Undef) }

\* a root without message, then one message node; or two message nodes
ChainOf(ms) ==
    [i \in 1..(Len(ms) + 1) |->
        Node(i - 1,
             IF i <= Len(ms) THEN <<i + 1>> ELSE <<>>,
             IF i = 1 THEN NoMsg ELSE ms[i - 1])]
WellFormedMsgs == {m \in NodeMsgs : m.def /\ m.author \in Roles /\ m.content # NoContent}
DocMappings ==
    {ChainOf(<<m>>) : m \in NodeMsgs}
    \cup {ChainOf(<<m1, m2>>) : m1 \in WellFormedMsgs, m2 \in WellFormedMsgs}
    \cup {<<Node(0, <<2>>, NoMsg),
            Node(1, NoList, RawMsg("m-user", "user", RawContent("text", <<StrPart(TextAB)>>), Undef))>>}

\* gizmo_id?: string -- absent, the empty string, or the id of a GPT or project
GizmoIds == {Undef, "", "g-1"}

ChatGPTDocs ==
    {[i \in 1..Len(ms) |->
        [id |-> i, create_time |-> Num(17), gizmo_id |-> Undef, mapping |-> ms[i]]] :
     ms \in NonEmptySeqsUpTo(DocMappings, MaxConvs)}
    \cup {<<[id |-> 1, create_time |-> t, gizmo_id |-> Undef,
             mapping |-> ChainOf(<<RawMsg("m-user", "user",
                                          RawContent("text", <<StrPart(TextAB)>>), Undef)>>)]>> :
           t \in {Absent, Num(MaxDate + 1)}}
    \cup {[i \in 1..2 |->
             [id |-> i, create_time |-> Num(17), gizmo_id |-> g[i],
              mapping |-> ChainOf(<<RawMsg("m-user", "user",
                                           RawContent("text", <<StrPart(TextAB)>>), Undef)>>)]] :
           g \in [1..2 -> GizmoIds]}

StartParse(a, in) ==
    /\ adapter = a
    /\ input = in
    /\ pc = "next"
    /\ idx = 1
    /\ sidx = 1
    /\ sessions = <<>>
    /\ detected = "none"
    /\ currentId = 0
    /\ result = <<>>
    /\ yielded = <<>>
    /\ pulls = 0
    /\ reads = <<>>
    /\ previous = <<>>

InitChatGPT == \E d \in ChatGPTDocs : StartParse("chatgpt", d)

SpecChatGPT == InitChatGPT /\ [][NextChatGPT]_vars

\* ---------------------------------------------------------------- linearization inputs
\* MaxNodes nodes, each with a user message of its own text.  The child lists
\* are those the parent fields induce (regenerations listed oldest first, or
\* newest first), with at most one defect: a node without child list, a
\* child id of no node, or one more child that some list may already name.
NodeAtoms == <<"X", "Y", "Z", "W", "V", "U">>
NodeText(i) == <<NodeAtoms[i]>>

RECURSIVE KidsFrom(_, _, _)
KidsFrom(parents, n, i) ==
    IF i > Len(parents) THEN <<>>
    ELSE (IF parents[i] = n THEN <<i>> ELSE <<>>) \o KidsFrom(parents, n, i + 1)
Reverse(s) == [i \in 1..Len(s) |-> s[Len(s) + 1 - i]]
Kids(parents, n, newestFirst) ==
    IF newestFirst THEN Reverse(KidsFrom(parents, n, 1)) ELSE KidsFrom(parents, n, 1)

Defects ==
    {[kind |-> "none", at |-> 0, child |-> 0]}
    \cup {[kind |-> "nolist", at |-> k, child |-> 0] : k \in 1..MaxNodes}
    \cup {[kind |-> "extra", at |-> k, child |-> j] : k \in 1..MaxNodes, j \in 1..(MaxNodes + 1)}

LinMapping(parents, newestFirst, defect) ==
    [i \in 1..MaxNodes |->
        Node(parents[i],
             IF defect.at # i THEN Kids(parents, i, newestFirst)
             ELSE IF defect.kind = "nolist" THEN NoList
             ELSE Append(Kids(parents, i, newestFirst), defect.child),
             RawMsg(i, "user", RawContent("text", <<StrPart(NodeText(i))>>), Undef))]

LinParents == {p \in [1..MaxNodes -> 0..(MaxNodes + 1)] : \A i \in 1..MaxNodes : p[i] # i}

LinDocs ==
    {<<[id |-> 1, create_time |-> Num(17), gizmo_id |-> Undef,
        mapping |-> LinMapping(p, nf, d)]>> :
     p \in LinParents, nf \in BOOLEAN, d \in Defects}

InitLin == \E d \in LinDocs : StartParse("chatgpt", d)

SpecLin == InitLin /\ [][NextChatGPT]_vars

\* the child lists agree with the parent fields, as in an export: every
\* list exists, names nodes of the mapping once, and c is in n's list
\* exactly when n is c's parent
ExportTree(mapping) ==
    /\ \A n \in 1..Len(mapping) :
        /\ mapping[n].children # NoList
        /\ \A a, b \in 1..Len(mapping[n].children) :
             mapping[n].children[a] = mapping[n].children[b] => a = b
        /\ \A a \in 1..Len(mapping[n].children) :
             /\ InMapping(mapping, mapping[n].children[a])
             /\ mapping[mapping[n].children[a]].parent = n
    /\ \A c \in 1..Len(mapping) :
        InMapping(mapping, mapping[c].parent) =>
            \E a \in 1..Len(mapping[mapping[c].parent].children) :
                mapping[mapping[c].parent].children[a] = c

LastOf(s) == s[Len(s)]
TextsOf(msgs) == {msgs[i].text : i \in 1..Len(msgs)}
\* the visited nodes where the walk had to choose between two children
ForksOn(mapping, path) ==
    {i \in 1..Len(path) :
        /\ mapping[path[i]].children # NoList
        /\ Len(mapping[path[i]].children) >= 2
        /\ mapping[path[i]].children[1] # LastOf(mapping[path[i]].children)}

\* C1: the walk starts at the root and each emitted node is the last child
\* of the node emitted before it (for every mapping); in an export tree it
\* ends at a node without children, and at every visited fork the yielded
\* messages hold the last child's text and not the first child's.
C1_LastChildBranch ==
    (adapter = "chatgpt" /\ idx <= Len(input) + 1 /\ Len(input) = 1) =>
    LET mapping == input[1].mapping
    IN /\ (result # <<>> =>
             /\ result[1] = FindRoot(mapping)
             /\ IsRoot(mapping, result[1]))
       /\ \A i \in 1..(Len(result) - 1) :
             /\ mapping[result[i]].children # <<>>
             /\ result[i + 1] = LastOf(mapping[result[i]].children)
       /\ (pc = "walk" /\ currentId # 0 /\ result # <<>> =>
             currentId = LastOf(mapping[LastOf(result)].children))
       /\ (ExportTree(mapping) /\ result # <<>> /\ (pc # "walk" \/ currentId = 0) =>
             mapping[LastOf(result)].children = <<>>)
       /\ (pc \in {"next", "done"} /\ idx = 2 /\ result = <<>> => yielded = <<>>)
       /\ (ExportTree(mapping) /\ pc \in {"next", "done"} /\ idx = 2 /\ result # <<>> =>
             /\ Len(yielded) = 1
             /\ \A i \in ForksOn(mapping, result) :
                  /\ NodeText(LastOf(mapping[result[i]].children)) \in TextsOf(yielded[1].messages)
                  /\ NodeText(mapping[result[i]].children[1]) \notin TextsOf(yielded[1].messages))

C1_Witness ==
    /\ adapter = "chatgpt" /\ pc = "done" /\ Len(input) = 1 /\ Len(yielded) = 1
    /\ ExportTree(input[1].mapping)
    /\ ForksOn(input[1].mapping, result) # {}
    /\ Len(yielded[1].messages) >= 2

\* ---------------------------------------------------------------- Claude.ai web
Block(type, text, name, title) ==
    [type |-> type, text |-> text, name |-> name, title |-> title]
WebMsg(uuid, sender, content, text) ==
    [uuid |-> uuid, sender |-> sender, created_at |-> Str(1, 1700), content |-> content,
     text |-> text]

\* the loop over the content blocks of parseMessage; a thinking block keeps
\* its words (block.thinking) in the text field of Block
RECURSIVE WebParts(_)
WebParts(blocks) ==
    IF blocks = <<>> THEN <<>>
    ELSE LET block == Head(blocks)
             rest == WebParts(Tail(blocks))
         IN IF block.type = "text" /\ TextOrEmpty(block.text) # <<>>
                THEN <<TextPart(block.text)>> \o rest
            ELSE IF block.type = "thinking" /\ TextOrEmpty(block.text) # <<>>
                THEN <<Part("thinking", block.text, Undef, Undef)>> \o rest
            ELSE IF block.type = "tool_use"
                THEN <<Part("tool_call",
                            IF block.name = "create_artifact"
                              THEN <<"[Artifact:", " ", OrElse(block.title, "untitled"), "]">>
                              ELSE <<"[Tool:", " ", OrElse(block.name, "unknown"), "]">>,
                            block.name, Undef)>> \o rest
            ELSE IF block.type = "tool_result"
                THEN <<Part("tool_result", UndefText, block.name, Undef)>> \o rest
            ELSE rest

WebTextParts(blocks) ==
    LET sel == SelectSeq(blocks, LAMBDA b : b.type = "text" /\ TextOrEmpty(b.text) # <<>>)
    IN [i \in 1..Len(sel) |-> sel[i].text]

\* sender === "human" ? "user" : sender
WebRole(sender) == IF sender = "human" THEN "user" ELSE sender

WebWordCount_Primary(primaryText, text) == countWords(primaryText)
WebWordCount(primaryText, text) == countWords(text)

\* parseMessage: zero messages or one
ClaudeWebMessage(msgRaw) ==
    LET sender == OrElse(msgRaw.sender, "unknown")
        role == WebRole(sender)
        blocks == IF msgRaw.content = NoArray THEN <<>> ELSE msgRaw.content
        contentParts == WebParts(blocks)
        joined == JoinWith(WebTextParts(blocks), <<"\n", "\n">>)
        primaryText == IF joined # <<>> THEN joined ELSE TextOrEmpty(msgRaw.text)
        content == IF Len(contentParts) > 0 THEN contentParts ELSE <<TextPart(primaryText)>>
        text == flattenContentToText(content)
    IN IF primaryText # <<>> \/ Len(contentParts) = 0
         THEN <<Message(msgRaw.uuid, role, content, text,
                        WebWordCount(primaryText, text), msgRaw.created_at, Undef)>>
         ELSE <<>>

RECURSIVE WebMessages(_)
WebMessages(raws) ==
    IF raws = <<>> THEN <<>>
    ELSE ClaudeWebMessage(Head(raws)) \o WebMessages(Tail(raws))

\* parseConversation: Null or the conversation
ClaudeWebConversation_KeepEmpty(conv) ==
    LET messages == WebMessages(IF conv.chat_messages = NoArray THEN <<>> ELSE conv.chat_messages)
    IN Conversation(conv.uuid, "claude-web", conv.created_at, messages,
                    SumSeq(Words(messages)), PrimaryModel(<<>>), Undef)
ClaudeWebConversation(conv) ==
    LET messages == WebMessages(IF conv.chat_messages = NoArray THEN <<>> ELSE conv.chat_messages)
    IN IF messages = <<>> THEN Null
       ELSE Conversation(conv.uuid, "claude-web", conv.created_at, messages,
                         SumSeq(Words(messages)), PrimaryModel(<<>>), Undef)

\* parse: one turn of the for loop, or the generator returns
WebNext ==
    /\ adapter = "claude-web" /\ pc = "next"
    /\ IF idx > Len(input)
         THEN pc' = "done" /\ UNCHANGED <<idx, yielded>>
         ELSE LET c == ClaudeWebConversation(input[idx])
              IN /\ idx' = idx + 1
                 /\ yielded' = IF c = Null THEN yielded ELSE Append(yielded, c)
                 /\ UNCHANGED pc
    /\ UNCHANGED <<adapter, input, sidx, sessions, detected, currentId, result,
                 pulls, reads, previous>>

NextClaudeWeb == WebNext

WebMsgs ==
    { WebMsg("w-human", "human", <<Block("text", TextAB, Undef, Undef)>>, UndefText),
      WebMsg("w-asst", "assistant",
             <<Block("text", TextY, Undef, Undef),
               Block("tool_use", UndefText, "create_artifact", "T")>>, UndefText),
      WebMsg("w-think", "assistant",
             <<Block("thinking", TextY, Undef, Undef),
               Block("tool_use", UndefText, "search", Undef)>>, UndefText),
      WebMsg("w-nosender", Undef, <<>>, UndefText),
      [WebMsg("w-nodate", "human", <<Block("text", TextAB, Undef, Undef)>>, UndefText)
          EXCEPT !.created_at = Absent] }

\* no chat_messages, one message, or two
WebConvs ==
    {NoArray} \cup {<<m>> : m \in WebMsgs} \cup {<<m1, m2>> : m1 \in WebMsgs, m2 \in WebMsgs}

WebDocs ==
    {[i \in 1..Len(cs) |->
        [uuid |-> i, created_at |-> Str(1, 1700), chat_messages |-> cs[i]]] :
     cs \in NonEmptySeqsUpTo(WebConvs, MaxConvs)}

InitClaudeWeb == \E d \in WebDocs : StartParse("claude-web", d)
SpecClaudeWeb == InitClaudeWeb /\ [][NextClaudeWeb]_vars

\* ---------------------------------------------------------------- session logs (JSONL)
Garbage == [k |-> "garbage"]
BlankLine == [k |-> "blank"]
NullLine == [k |-> "null"]
NoMessage == [def |-> FALSE]
Rec(type, uuid, timestamp, message) ==
    [k |-> "rec", type |-> type, uuid |-> uuid, timestamp |-> timestamp, message |-> message]
RecMessage(content, model) == [def |-> TRUE, content |-> content, model |-> model]
StringContent(t) == [k |-> "string", text |-> t]
ArrayContent(blocks) == [k |-> "array", blocks |-> blocks]
StringBlock(t) == [k |-> "string", type |-> Undef, text |-> t, name |-> Undef]
ObjectBlock(type, text, name) == [k |-> "object", type |-> type, text |-> text, name |-> name]

\* readJsonl: an unreadable file gives no records; a blank line and a line
\* JSON.parse rejects are skipped; every other line is pushed as parsed
readJsonl(file) ==
    IF ~file.readable THEN <<>>
    ELSE SelectSeq(file.lines, LAMBDA l : l.k \in {"null", "rec"})

CommandMarker == "<command-message>"

RECURSIVE UserBlocks(_)
UserBlocks(blocks) ==
    IF blocks = <<>> THEN <<>>
    ELSE LET b == Head(blocks)
         IN (IF b.k = "string" THEN <<b.text>>
             ELSE IF b.k = "object" /\ b.type = "text" /\ b.text # UndefText THEN <<b.text>>
             ELSE <<>>) \o UserBlocks(Tail(blocks))

CreatedAt(record) ==
    IF Truthy(record.timestamp) THEN toIsoTimestamp(record.timestamp)
    ELSE toIsoTimestamp(Absent)

\* parseUserRecord: <<>> for null, else the one message
parseUserRecord(record) ==
    IF ~record.message.def THEN <<>>
    ELSE LET content == record.message.content
             texts == IF content.k = "string" THEN <<content.text>>
                      ELSE IF content.k = "array" THEN UserBlocks(content.blocks)
                      ELSE <<>>
             text == JoinWith(texts, <<>>)
         IN IF text = <<>> \/ text[1] = CommandMarker THEN <<>>
            ELSE <<Message(OrElse(record.uuid, ""), "user",
                           [i \in 1..Len(texts) |-> TextPart(texts[i])],
                           text, countWords(text), CreatedAt(record), Undef)>>

RECURSIVE AssistantParts(_)
AssistantParts(blocks) ==
    IF blocks = <<>> THEN <<>>
    ELSE LET b == Head(blocks)
         IN (IF b.k # "object" THEN <<>>
             ELSE IF b.type = "text" /\ b.text # UndefText /\ b.text # <<>>
                THEN <<TextPart(b.text)>>
             ELSE IF b.type = "tool_use"
                THEN <<Part("tool_call", UndefText, b.name, Undef)>>
             ELSE <<>>) \o AssistantParts(Tail(blocks))

\* parseAssistantRecord: no message or one
parseAssistantRecord(record) ==
    IF ~record.message.def THEN <<>>
    ELSE IF record.message.content.k # "array" THEN <<>>
    ELSE LET contentParts == AssistantParts(record.message.content.blocks)
             text == flattenContentToText(contentParts)
         IN IF contentParts = <<>> THEN <<>>
            ELSE <<Message(OrElse(record.uuid, ""), "assistant", contentParts, text,
                           countWords(text), CreatedAt(record), record.message.model)>>

RecordMessages(record) ==
    IF record.type = "user" THEN parseUserRecord(record)
    ELSE IF record.type = "assistant" THEN parseAssistantRecord(record)
    ELSE <<>>

ModelsOf(msgs) ==
    LET sel == SelectSeq(msgs, LAMBDA m : m.model # Undef)
    IN [i \in 1..Len(sel) |-> sel[i].model]

\* the record loop shared by ClaudeCodeAdapter.parseSession and
\* CoworkAdapter.processRecords; reading a field of a null record is a
\* TypeError.  all: the messages with their sort keys (timestamp || "")
EmptyTally == [thrown |-> FALSE, all |-> <<>>, timestamps |-> <<>>]
Tag(msgs, isSubagent, key) ==
    [i \in 1..Len(msgs) |->
        [msg |-> [msgs[i] EXCEPT !.is_subagent = isSubagent], sortTs |-> key]]
SortKey(timestamp) == IF Truthy(timestamp) THEN timestamp.ord ELSE 0

RECURSIVE processRecords(_, _, _)
processRecords(records, tally, isSubagent) ==
    IF records = <<>> \/ tally.thrown THEN tally
    ELSE LET record == Head(records)
         IN IF record.k = "null" THEN [tally EXCEPT !.thrown = TRUE]
            ELSE processRecords(Tail(records),
                    [tally EXCEPT
                       !.timestamps = IF Truthy(record.timestamp)
                                        THEN Append(@, record.timestamp) ELSE @,
                       !.all = @ \o Tag(RecordMessages(record), isSubagent,
                                        SortKey(record.timestamp))],
                    isSubagent)

MsgsOf(all) == [i \in 1..Len(all) |-> all[i].msg]

\* parseSession of the Claude Code adapter: Null, Thrown or the conversation
ClaudeCodeSession(file, sessionId, projectPath) ==
    LET records == readJsonl(file)
    IN IF records = <<>> THEN Null
       ELSE LET t == processRecords(records, EmptyTally, FALSE)
                messages == MsgsOf(t.all)
            IN IF t.thrown THEN Thrown
               ELSE IF messages = <<>> THEN Null
               ELSE Conversation(sessionId, "claude-code",
                        IF t.timestamps # <<>> THEN toIsoTimestamp(t.timestamps[1])
                                               ELSE toIsoTimestamp(Absent),
                        messages, SumSeq(Words(messages)),
                        PrimaryModel(ModelsOf(messages)), projectPath)

\* ---------------------------------------------------------------- directory trees
\* A name is a text; "-" and "_" and "." are atoms of their own where the
\* code looks at them.  NameOrder lists the names of the model in the order
\* of Array.prototype.sort (UTF-16 code units).
CoworkPrefix == <<"-", "sessions", "-">>
StartsWith(name, prefix) ==
    Len(name) >= Len(prefix) /\ SubSeq(name, 1, Len(prefix)) = prefix
EndsWith(name, suffix) ==
    Len(name) >= Len(suffix) /\ SubSeq(name, Len(name) - Len(suffix) + 1, Len(name)) = suffix
IsJsonl(name) == EndsWith(name, <<".jsonl">>)
Basename(name) == SubSeq(name, 1, Len(name) - 1)

SlugCode == <<"-", "Users", "-", "test", "-", "myproject">>
SlugData == <<"-", "var", "-", "data">>
SlugCowork == <<"-", "sessions", "-", "pasteur">>
SlugCowork2 == <<"-", "sessions", "-", "turing">>
FileS1 == <<"s1", ".jsonl">>
FileS2 == <<"s2", ".jsonl">>
FileNotes == <<"notes", ".txt">>
AgentA == <<"agent-", "a", ".jsonl">>
AgentB == <<"agent-", "b", ".jsonl">>
OtherLog == <<"other", ".jsonl">>
DotCache == <<".", "cache">>
LocalA == <<"local", "_", "a1b2">>
Tmp == <<"tmp">>
Workspace == <<"workspace">>
LocalAWorkspace == <<"local", "_", "a1b2", "_", "workspace">>
NameOrder ==
    <<SlugCode, SlugCowork, SlugCowork2, SlugData,
      AgentA, AgentB, FileNotes, OtherLog, FileS1, FileS2,
      DotCache, LocalA, LocalAWorkspace, Tmp, Workspace>>
Rank(name) == CHOOSE i \in 1..Len(NameOrder) : NameOrder[i] = name

\* entries.sort(): stable insertion by rank
RECURSIVE InsertByRank(_, _)
InsertByRank(sorted, e) ==
    IF sorted = <<>> THEN <<e>>
    ELSE IF Rank(e.name) < Rank(Head(sorted).name) THEN <<e>> \o sorted
    ELSE <<Head(sorted)>> \o InsertByRank(Tail(sorted), e)
RECURSIVE SortEntries(_)
SortEntries(entries) ==
    IF entries = <<>> THEN <<>>
    ELSE InsertByRank(SortEntries(SubSeq(entries, 1, Len(entries) - 1)),
                      entries[Len(entries)])

NoDir == [exists |-> FALSE, listable |-> FALSE, entries |-> <<>>]
Dir(entries) == [exists |-> TRUE, listable |-> TRUE, entries |-> entries]
Unlistable == [exists |-> TRUE, listable |-> FALSE, entries |-> <<>>]
LogFile(name, readable, lines, subagents) ==
    [name |-> name, readable |-> readable, lines |-> lines, subagents |-> subagents]
\* an entry of projects/: a directory (with its files), a plain file, or a
\* name stat fails on (a dangling link)
Entry(name, kind, listable, files) ==
    [name |-> name, kind |-> kind, listable |-> listable, files |-> files]
Root(projects, lams, conversations) ==
    [exists |-> TRUE, projects |-> projects, lams |-> lams, conversations |-> conversations]
\* the LAMS tree: dirs[1] is local-agent-mode-sessions itself; an entry that
\* is a directory names the directory it leads to
NoLams == [exists |-> FALSE, dirs |-> <<>>]
Lams(dirs) == [exists |-> TRUE, dirs |-> dirs]
LamsEntry(name, kind, to, claudeProjects) ==
    [name |-> name, kind |-> kind, to |-> to, claudeProjects |-> claudeProjects]
\* conversations.json: absent, not JSON, or what JSON.parse gives
NoJson == [k |-> "absent"]
BadJson == [k |-> "garbage"]
NotArray == [k |-> "object"]
\* an array: empty, or with a first element that is an object with the
\* given keys, or no object at all
JsonArray(empty, firstIsObject, keys) ==
    [k |-> "array", empty |-> empty, firstIsObject |-> firstIsObject, keys |-> keys]
NoRoot == [exists |-> FALSE, projects |-> NoDir, lams |-> NoLams, conversations |-> NoJson]
\* the disk: the directory the caller names, and the two well-known homes
Disk(sourcePath, other, dotClaude, appSupport) ==
    [sourcePath |-> sourcePath, other |-> other, dotClaude |-> dotClaude,
     appSupport |-> appSupport]
RootAt(disk, path) ==
    IF path = "other" THEN disk.other
    ELSE IF path = "dotClaude" THEN disk.dotClaude
    ELSE IF path = "appSupport" THEN disk.appSupport
    ELSE NoRoot

JsonlFiles_Unsorted(entry) == SelectSeq(entry.files, LAMBDA f : IsJsonl(f.name))
JsonlFiles(entry) == SortEntries(SelectSeq(entry.files, LAMBDA f : IsJsonl(f.name)))

\* ---------------------------------------------------------------- Claude Code
\* an async generator runs only while a next() call is outstanding, and
\* suspends at each yield
Running_Eager == TRUE
Running == pulls > Len(yielded)
PullNext ==
    /\ pc \notin {"done", "thrown"}
    /\ pulls = Len(yielded)
    /\ pulls' = pulls + 1
    /\ UNCHANGED <<adapter, input, pc, idx, sidx, sessions, detected, currentId, result,
                   yielded, reads, previous>>
ReadOf(project, file, agent) == [project |-> project, file |-> file, agent |-> agent]

\* the consumer of ClaudeCodeAdapter.parse asks for the next conversation
CodePull == adapter = "claude-code" /\ PullNext

\* parse, up to the loop over the project directories
CodeOpen ==
    /\ adapter = "claude-code" /\ pc = "next"
    /\ Running
    /\ LET projects == RootAt(input, input.sourcePath).projects
       IN IF ~projects.exists THEN pc' = "done"
          ELSE IF ~projects.listable THEN pc' = "thrown"
          ELSE pc' = "proj"
    /\ UNCHANGED <<adapter, input, idx, sidx, sessions, detected, currentId, result, yielded,
                 pulls, reads, previous>>

CodeProjects(disk) == SortEntries(RootAt(disk, disk.sourcePath).projects.entries)

\* which project directories parse skips
CodeSkips_NoPrefixTest(projDir) == projDir.kind # "dir"
CodeSkips(projDir) == projDir.kind # "dir" \/ StartsWith(projDir.name, CoworkPrefix)

\* one turn of the loop over the project directories: stat, the two skips, readdir
CodeProject ==
    /\ adapter = "claude-code" /\ pc = "proj"
    /\ Running
    /\ IF idx > Len(CodeProjects(input))
         THEN pc' = "done" /\ UNCHANGED <<idx, sidx>>
         ELSE LET projDir == CodeProjects(input)[idx]
              IN IF projDir.kind = "nostat" THEN pc' = "thrown" /\ UNCHANGED <<idx, sidx>>
                 ELSE IF CodeSkips(projDir)
                    THEN idx' = idx + 1 /\ UNCHANGED <<pc, sidx>>
                 ELSE IF ~projDir.listable THEN pc' = "thrown" /\ UNCHANGED <<idx, sidx>>
                 ELSE pc' = "sess" /\ sidx' = 1 /\ UNCHANGED idx
    /\ UNCHANGED <<adapter, input, sessions, detected, currentId, result, yielded,
                 pulls, reads, previous>>

\* one turn of the loop over the session files: parseSession and the yield
CodeSession ==
    /\ adapter = "claude-code" /\ pc = "sess"
    /\ Running
    /\ LET projDir == CodeProjects(input)[idx]
           files == JsonlFiles(projDir)
       IN IF sidx > Len(files)
            THEN pc' = "proj" /\ idx' = idx + 1 /\ UNCHANGED <<sidx, yielded, reads>>
            ELSE LET conv == ClaudeCodeSession(files[sidx], Basename(files[sidx].name),
                                               projDir.name)
                 IN /\ reads' = Append(reads, ReadOf(projDir.name, files[sidx].name, <<>>))
                    /\ IF conv = Thrown THEN pc' = "thrown" /\ UNCHANGED <<idx, sidx, yielded>>
                       ELSE /\ sidx' = sidx + 1
                            /\ yielded' = IF conv = Null THEN yielded ELSE Append(yielded, conv)
                            /\ UNCHANGED <<pc, idx>>
    /\ UNCHANGED <<adapter, input, sessions, detected, currentId, result,
                 pulls, previous>>

NextClaudeCode == CodePull \/ CodeOpen \/ CodeProject \/ CodeSession

\* parseProjects of the Claude Code adapter: the projects yielded, and
\* whether the generator then threw
RECURSIVE CodeProjectList(_, _)
CodeProjectList(projectDirs, acc) ==
    IF projectDirs = <<>> THEN [thrown |-> FALSE, projects |-> acc]
    ELSE LET projDir == Head(projectDirs)
         IN IF projDir.kind = "nostat" THEN [thrown |-> TRUE, projects |-> acc]
            ELSE IF CodeSkips(projDir) THEN CodeProjectList(Tail(projectDirs), acc)
            ELSE IF ~projDir.listable THEN [thrown |-> TRUE, projects |-> acc]
            ELSE IF Len(JsonlFiles(projDir)) = 0 THEN CodeProjectList(Tail(projectDirs), acc)
            ELSE CodeProjectList(Tail(projectDirs),
                    Append(acc, [source_id |-> projDir.name, provider |-> "claude-code",
                                 conversation_count |-> Len(JsonlFiles(projDir))]))
ClaudeCodeParseProjects(disk) ==
    LET projects == RootAt(disk, disk.sourcePath).projects
    IN IF ~projects.exists THEN [thrown |-> FALSE, projects |-> <<>>]
       ELSE IF ~projects.listable THEN [thrown |-> TRUE, projects |-> <<>>]
       ELSE CodeProjectList(CodeProjects(disk), <<>>)

\* ---------------------------------------------------------------- Cowork
SessionInfo(mainFile, subagentFiles, sessionId) ==
    [mainFile |-> mainFile, subagentFiles |-> subagentFiles, sessionId |-> sessionId]

\* a Map in insertion order: a sequence of [key, value] with distinct keys
MapHas(map, key) == \E i \in 1..Len(map) : map[i].key = key
MapGet(map, key) ==
    IF MapHas(map, key) THEN map[CHOOSE i \in 1..Len(map) : map[i].key = key].value ELSE <<>>
MapSet(map, key, value) ==
    IF MapHas(map, key)
      THEN [i \in 1..Len(map) |-> IF map[i].key = key THEN [key |-> key, value |-> value] ELSE map[i]]
      ELSE Append(map, [key |-> key, value |-> value])

\* .filter(f => f.startsWith("agent-") && f.endsWith(".jsonl")).sort()
SubagentFiles(file) ==
    IF file.subagents.exists /\ file.subagents.listable
      THEN SortEntries(SelectSeq(file.subagents.entries,
                LAMBDA f : StartsWith(f.name, <<"agent-">>) /\ IsJsonl(f.name)))
      ELSE <<>>

scanProjectDir(entry) ==
    IF ~entry.listable THEN <<>>
    ELSE LET files == JsonlFiles(entry)
         IN [i \in 1..Len(files) |->
               SessionInfo(files[i], SubagentFiles(files[i]), Basename(files[i].name))]

CoworkKeeps(entry, coworkOnly) ==
    entry.kind = "dir" /\ (~coworkOnly \/ StartsWith(entry.name, CoworkPrefix))

RECURSIVE ProjectSessions(_, _, _)
ProjectSessions(entries, coworkOnly, acc) ==
    IF entries = <<>> THEN acc
    ELSE LET entry == Head(entries)
             found == scanProjectDir(entry)
         IN ProjectSessions(Tail(entries), coworkOnly,
               IF CoworkKeeps(entry, coworkOnly) /\ found # <<>>
                 THEN MapSet(acc, entry.name, found) ELSE acc)

discoverProjectSessions(projectsDir, coworkOnly) ==
    IF ~projectsDir.listable THEN <<>>
    ELSE ProjectSessions(SortEntries(projectsDir.entries), coworkOnly, <<>>)

LamsMaxDepth == 5
AtomLen(a) ==
    CASE a = "local" -> 5 [] a = "_" -> 1 [] a = "a1b2" -> 4 [] a = "tmp" -> 3
      [] a = "workspace" -> 9 [] a = "." -> 1 [] a = "cache" -> 5 [] OTHER -> 4
NameLen(name) == SumSeq([i \in 1..Len(name) |-> AtomLen(name[i])])

\* if (depth > maxDepth) return []
TooDeep_OneMore(depth, maxDepth) == depth > maxDepth + 1
TooDeep(depth, maxDepth) == depth > maxDepth
\* entry.length >= 8 || entry.startsWith("local_"), and stat says directory
Descends(entry) ==
    /\ (NameLen(entry.name) >= 8 \/ StartsWith(entry.name, <<"local", "_">>))
    /\ entry.kind = "dir"

RECURSIVE findClaudeProjectsRecursive(_, _, _, _, _)
RECURSIVE FindInEntries(_, _, _, _, _)
findClaudeProjectsRecursive(dirs, directory, maxDepth, depth, labelParts) ==
    IF TooDeep(depth, maxDepth) THEN <<>>
    ELSE IF ~dirs[directory].listable THEN <<>>
    ELSE FindInEntries(dirs, SortEntries(dirs[directory].entries), maxDepth, depth, labelParts)
FindInEntries(dirs, entries, maxDepth, depth, labelParts) ==
    IF entries = <<>> THEN <<>>
    ELSE LET entry == Head(entries)
             rest == FindInEntries(dirs, Tail(entries), maxDepth, depth, labelParts)
         IN IF StartsWith(entry.name, <<".">>) THEN rest
            ELSE IF entry.claudeProjects.exists
              THEN <<[label |-> JoinWith(Append(labelParts, entry.name), <<"_">>),
                      projects |-> entry.claudeProjects]>> \o rest
            ELSE IF Descends(entry)
              THEN findClaudeProjectsRecursive(dirs, entry.to, maxDepth, depth + 1,
                                               Append(labelParts, entry.name)) \o rest
            ELSE rest

LamsKey(label, key) == <<"lams", ":">> \o label \o <<":">> \o key

RECURSIVE PrefixKeys(_, _, _)
PrefixKeys(found, label, acc) ==
    IF found = <<>> THEN acc
    ELSE PrefixKeys(Tail(found), label,
                    MapSet(acc, LamsKey(label, Head(found).key), Head(found).value))

RECURSIVE LamsSessions(_, _)
LamsSessions(claudeProjectDirs, acc) ==
    IF claudeProjectDirs = <<>> THEN acc
    ELSE LamsSessions(Tail(claudeProjectDirs),
            PrefixKeys(discoverProjectSessions(Head(claudeProjectDirs).projects, FALSE),
                       Head(claudeProjectDirs).label, acc))

discoverLamsSessions(lams) ==
    LamsSessions(findClaudeProjectsRecursive(lams.dirs, 1, LamsMaxDepth, 0, <<>>), <<>>)

resolveSources(disk) ==
    IF disk.sourcePath = "auto"
      THEN SelectSeq(<<"dotClaude", "appSupport">>, LAMBDA p : RootAt(disk, p).exists)
    ELSE IF disk.sourcePath = "dotClaude" /\ disk.appSupport.exists
      THEN <<"dotClaude", "appSupport">>
    ELSE IF disk.sourcePath = "appSupport" /\ disk.dotClaude.exists
      THEN <<"appSupport", "dotClaude">>
    ELSE <<disk.sourcePath>>

\* allSessions.set(key, [...(allSessions.get(key) || []), ...sessions])
RECURSIVE MergeInto(_, _)
MergeInto(all, found) ==
    IF found = <<>> THEN all
    ELSE MergeInto(MapSet(all, Head(found).key, MapGet(all, Head(found).key) \o Head(found).value),
                   Tail(found))

RECURSIVE AllSessions(_, _, _)
AllSessions(disk, sources, all) ==
    IF sources = <<>> THEN all
    ELSE LET source == RootAt(disk, Head(sources))
             std == IF source.exists /\ source.projects.exists
                      THEN MergeInto(all, discoverProjectSessions(source.projects, TRUE))
                      ELSE all
             both == IF source.exists /\ source.lams.exists
                       THEN MergeInto(std, discoverLamsSessions(source.lams))
                       ELSE std
         IN AllSessions(disk, Tail(sources), both)

discoverAllSessions(disk) == AllSessions(disk, resolveSources(disk), <<>>)

\* the pairs the two loops of parse go through, in order
RECURSIVE Flatten(_)
Flatten(map) ==
    IF map = <<>> THEN <<>>
    ELSE [i \in 1..Len(Head(map).value) |->
            [projectPath |-> Head(map).key, info |-> Head(map).value[i]]]
         \o Flatten(Tail(map))

\* allMessages.sort((a, b) => a.sortTs.localeCompare(b.sortTs)): stable
RECURSIVE InsertByTs(_, _)
InsertByTs(sorted, m) ==
    IF sorted = <<>> THEN <<m>>
    ELSE IF m.sortTs < Head(sorted).sortTs THEN <<m>> \o sorted
    ELSE <<Head(sorted)>> \o InsertByTs(Tail(sorted), m)
RECURSIVE SortByTs(_)
SortByTs(all) ==
    IF all = <<>> THEN <<>>
    ELSE InsertByTs(SortByTs(SubSeq(all, 1, Len(all) - 1)), all[Len(all)])

RECURSIVE ProcessSubagents(_, _)
ProcessSubagents(saFiles, tally) ==
    IF saFiles = <<>> THEN tally
    ELSE ProcessSubagents(Tail(saFiles), processRecords(readJsonl(Head(saFiles)), tally, TRUE))

\* the main log first, then every subagent log
CoworkTally_SubagentsFirst(sessionInfo) ==
    processRecords(readJsonl(sessionInfo.mainFile),
                   ProcessSubagents(sessionInfo.subagentFiles, EmptyTally), FALSE)
CoworkTally(sessionInfo) ==
    ProcessSubagents(sessionInfo.subagentFiles,
                     processRecords(readJsonl(sessionInfo.mainFile), EmptyTally, FALSE))

MinTs(timestamps) ==
    CHOOSE t \in {timestamps[i] : i \in 1..Len(timestamps)} :
        \A i \in 1..Len(timestamps) : t.ord <= timestamps[i].ord

\* String.prototype.trim, on texts whose white space is blanks and newlines
RECURSIVE TrimStart(_)
TrimStart(str) == IF str # <<>> /\ IsWs(Head(str)) THEN TrimStart(Tail(str)) ELSE str
Trim(str) == Reverse(TrimStart(Reverse(TrimStart(str))))
\* title.replace(/\n/g, " ")
NewlinesToSpaces(str) == [i \in 1..Len(str) |-> IF str[i] = "\n" THEN " " ELSE str[i]]

MinTitleChars == 10
TitleChars == 80
Ellipsis == <<".", ".", ".">>
CoworkUntitled == <<"Untitled Cowork Session">>

\* if (content.length < 10) continue
TooShort_AtMost(content) == Len(content) <= MinTitleChars
TooShort(content) == Len(content) < MinTitleChars

\* the title made of the trimmed text of the message chosen
TitleOf(content) ==
    LET head == Trim(SubSeq(content, 1, IF Len(content) < TitleChars THEN Len(content)
                                         ELSE TitleChars))
        title == IF Len(content) > TitleChars THEN head \o Ellipsis ELSE head
    IN Trim(NewlinesToSpaces(title))

RECURSIVE inferCoworkTitle(_)
inferCoworkTitle(messages) ==
    IF messages = <<>> THEN CoworkUntitled
    ELSE LET msg == Head(messages)
         IN IF msg.role = "user" /\ msg.text # <<>> /\ ~TooShort(Trim(msg.text))
              THEN TitleOf(Trim(msg.text))
              ELSE inferCoworkTitle(Tail(messages))

\* parseSession of the Cowork adapter: Null, Thrown or the conversation
CoworkSessionConv(sessionInfo, projectPath) ==
    IF readJsonl(sessionInfo.mainFile) = <<>> THEN Null
    ELSE LET t == CoworkTally(sessionInfo)
             messages == MsgsOf(SortByTs(t.all))
         IN IF t.thrown THEN Thrown
            ELSE IF messages = <<>> THEN Null
            ELSE [title |-> inferCoworkTitle(messages)] @@
                 Conversation(sessionInfo.sessionId, "cowork",
                     IF t.timestamps # <<>> THEN toIsoTimestamp(MinTs(t.timestamps))
                                            ELSE toIsoTimestamp(Absent),
                     messages, SumSeq(Words(messages)),
                     PrimaryModel(ModelsOf(MsgsOf(t.all))), projectPath)

\* the files parseSession reads: the main log, and unless it is empty or
\* broke the record loop, the subagent logs up to one that breaks it
RECURSIVE SubagentReads(_, _, _, _)
SubagentReads(saFiles, tally, projectPath, mainName) ==
    IF saFiles = <<>> \/ tally.thrown THEN <<>>
    ELSE <<ReadOf(projectPath, mainName, Head(saFiles).name)>>
         \o SubagentReads(Tail(saFiles), processRecords(readJsonl(Head(saFiles)), tally, TRUE),
                          projectPath, mainName)
CoworkReads(sessionInfo, projectPath) ==
    LET main == readJsonl(sessionInfo.mainFile)
    IN <<ReadOf(projectPath, sessionInfo.mainFile.name, <<>>)>>
       \o (IF main = <<>> THEN <<>>
           ELSE SubagentReads(sessionInfo.subagentFiles, processRecords(main, EmptyTally, FALSE),
                              projectPath, sessionInfo.mainFile.name))

\* the consumer of CoworkAdapter.parse asks for the next conversation
CoworkPull == adapter = "cowork" /\ PullNext

\* parse: discoverAllSessions, which lists directories and reads no log
CoworkDiscover ==
    /\ adapter = "cowork" /\ pc = "next"
    /\ Running
    /\ sessions' = Flatten(discoverAllSessions(input))
    /\ pc' = "sess"
    /\ UNCHANGED <<adapter, input, idx, sidx, detected, currentId, result, yielded,
                 pulls, reads, previous>>

\* one turn of the loops over the discovered sessions: parseSession and the yield
CoworkSession ==
    /\ adapter = "cowork" /\ pc = "sess"
    /\ Running
    /\ IF idx > Len(sessions)
         THEN pc' = "done" /\ UNCHANGED <<idx, yielded, reads>>
         ELSE LET conv == CoworkSessionConv(sessions[idx].info, sessions[idx].projectPath)
              IN /\ reads' = reads \o CoworkReads(sessions[idx].info, sessions[idx].projectPath)
                 /\ IF conv = Thrown THEN pc' = "thrown" /\ UNCHANGED <<idx, yielded>>
                    ELSE /\ idx' = idx + 1
                         /\ yielded' = IF conv = Null THEN yielded ELSE Append(yielded, conv)
                         /\ UNCHANGED pc
    /\ UNCHANGED <<adapter, input, sidx, sessions, detected, currentId, result,
                 pulls, previous>>

NextCowork == CoworkPull \/ CoworkDiscover \/ CoworkSession

\* ---------------------------------------------------------------- detection
\* what a try body comes to: "true" or "false" returned, or "throw"
Bool(b) == IF b THEN "true" ELSE "false"
\* catch { return false } (or fall through to return false)
Caught_Rethrow(outcome) == outcome
Caught(outcome) == IF outcome = "throw" THEN "false" ELSE outcome

\* JSON.parse, Array.isArray, length, and the `in` tests on data[0]:
\* JSON.parse throws on text that is no JSON, and `in` throws on a value
\* that is no object
FirstKeyTry(json, wanted) ==
    IF json.k = "garbage" THEN "throw"
    ELSE IF json.k # "array" \/ json.empty THEN "false"
    ELSE IF ~json.firstIsObject THEN "throw"
    ELSE Bool(wanted \subseteq json.keys)

\* readFile throws when there is no conversations.json
ChatGPTDetectOutcome(root) ==
    Caught(IF root.conversations.k = "absent" THEN "throw"
           ELSE FirstKeyTry(root.conversations, {"mapping"}))
ChatGPTDetect(root) == ChatGPTDetectOutcome(root) = "true"

ClaudeWebDetectOutcome(root) ==
    Caught(IF root.conversations.k = "absent" THEN "false"
           ELSE FirstKeyTry(root.conversations, {"chat_messages", "uuid"}))
ClaudeWebDetect(root) == ClaudeWebDetectOutcome(root) = "true"

CoworkDetectOutcome(root) ==
    IF ~root.projects.exists THEN Bool(root.lams.exists)
    ELSE Caught(IF ~root.projects.listable THEN "throw"
                ELSE Bool(\E i \in 1..Len(root.projects.entries) :
                             StartsWith(root.projects.entries[i].name, CoworkPrefix)))
CoworkDetect(root) == CoworkDetectOutcome(root) = "true"

\* the loop of ClaudeCodeAdapter.detect, in readdir order; stat throws on a
\* name it cannot resolve, readdir on a directory it cannot list
RECURSIVE CodeDetectEntries(_)
CodeDetectEntries(entries) ==
    IF entries = <<>> THEN "false"
    ELSE LET entry == Head(entries)
         IN IF entry.kind = "nostat" THEN "throw"
            ELSE IF entry.kind # "dir" THEN CodeDetectEntries(Tail(entries))
            ELSE IF ~entry.listable THEN "throw"
            ELSE IF /\ \E i \in 1..Len(entry.files) : IsJsonl(entry.files[i].name)
                    /\ ~StartsWith(entry.name, CoworkPrefix)
              THEN "true"
            ELSE CodeDetectEntries(Tail(entries))

ClaudeCodeDetectOutcome(root) ==
    IF ~root.projects.exists THEN "false"
    ELSE Caught(IF ~root.projects.listable THEN "throw"
                ELSE CodeDetectEntries(root.projects.entries))
ClaudeCodeDetect(root) == ClaudeCodeDetectOutcome(root) = "true"

ADAPTERS_CodeFirst == <<"chatgpt", "claude-web", "claude-code", "cowork">>
ADAPTERS == <<"chatgpt", "claude-web", "cowork", "claude-code">>

DetectOutcome(provider, root) ==
    IF provider = "chatgpt" THEN ChatGPTDetectOutcome(root)
    ELSE IF provider = "claude-web" THEN ClaudeWebDetectOutcome(root)
    ELSE IF provider = "cowork" THEN CoworkDetectOutcome(root)
    ELSE ClaudeCodeDetectOutcome(root)
Detects(provider, root) == DetectOutcome(provider, root) = "true"

\* detectProvider: one turn of the loop over ADAPTERS, or return null; an
\* error of detect is not caught here
DetectProbe ==
    /\ adapter = "detect" /\ pc = "next"
    /\ IF idx > Len(ADAPTERS)
         THEN pc' = "done" /\ detected' = "null" /\ UNCHANGED idx
         ELSE LET outcome == DetectOutcome(ADAPTERS[idx], RootAt(input, input.sourcePath))
              IN IF outcome = "throw"
                   THEN pc' = "thrown" /\ UNCHANGED <<idx, detected>>
                 ELSE IF outcome = "true"
                   THEN pc' = "done" /\ detected' = ADAPTERS[idx] /\ UNCHANGED idx
                 ELSE idx' = idx + 1 /\ UNCHANGED <<pc, detected>>
    /\ UNCHANGED <<adapter, input, sidx, sessions, currentId, result, yielded,
                 pulls, reads, previous>>

NextDetect == DetectProbe

\* ---------------------------------------------------------------- directory inputs
SlugPool == <<SlugCode, SlugCowork, SlugData, SlugCowork2>>

Ts(n) == Str(n, n * 100)
UserRec(uuid, ts, text) == Rec("user", uuid, ts, RecMessage(StringContent(text), Undef))
AsstRec(uuid, ts) ==
    Rec("assistant", uuid, ts,
        RecMessage(ArrayContent(<<ObjectBlock("text", TextY, Undef),
                                  ObjectBlock("tool_use", UndefText, "Bash")>>), "claude-x"))
GoodLines == <<UserRec("u1", Ts(1), TextAB), AsstRec("u2", Ts(2))>>
\* records, none of which gives a message
QuietLines ==
    <<UserRec("u1", Ts(1), <<CommandMarker, "x">>),
      Rec("progress", "u2", Ts(2), NoMessage),
      Rec("assistant", "u3", Absent, RecMessage(ArrayContent(<<StringBlock(TextY)>>), Undef))>>
AgentDir == Dir(<<LogFile(AgentA, TRUE, <<UserRec("a1", Ts(1), TextY)>>, NoDir),
                  LogFile(OtherLog, TRUE, <<UserRec("o1", Ts(1), TextY)>>, NoDir)>>)

\* the session logs a project directory of the model may hold
SessionFiles(name) ==
    { LogFile(name, TRUE, GoodLines, NoDir),
      LogFile(name, TRUE, GoodLines, AgentDir),
      LogFile(name, TRUE, QuietLines, NoDir),
      LogFile(name, TRUE, <<Garbage, BlankLine, UserRec("u1", Absent, TextAB)>>, NoDir),
      LogFile(name, TRUE, <<NullLine, UserRec("u1", Ts(1), TextAB)>>, NoDir),
      LogFile(name, FALSE, <<>>, NoDir) }

\* what one name of projects/ may be
EntriesNamed(slug) ==
    { Entry(slug, "nostat", FALSE, <<>>),
      Entry(slug, "file", FALSE, <<>>),
      Entry(slug, "dir", FALSE, <<>>),
      Entry(slug, "dir", TRUE,
            <<LogFile(FileNotes, TRUE, <<>>, NoDir),
              LogFile(FileS2, TRUE, <<UserRec("v1", Ts(2), TextY)>>, NoDir),
              LogFile(FileS1, TRUE, GoodLines, NoDir)>>) }
    \cup {Entry(slug, "dir", TRUE, <<f>>) : f \in SessionFiles(FileS1)}

\* the listings of a directory over the first n names: each name is absent
\* or one of the entries pool[i] gives it
RECURSIVE Listings(_, _)
Listings(n, pool) ==
    IF n = 0 THEN {<<>>}
    ELSE LET shorter == Listings(n - 1, pool)
         IN shorter \cup {Append(l, e) : l \in shorter, e \in pool[n]}

LamsSmall ==
    Lams(<<[listable |-> TRUE,
            entries |-> <<LamsEntry(Tmp, "dir", 3, NoDir),
                          LamsEntry(LocalA, "dir", 2, NoDir),
                          LamsEntry(DotCache, "dir", 3, Dir(<<>>))>>],
           [listable |-> TRUE,
            entries |-> <<LamsEntry(Workspace, "dir", 3,
                             Dir(<<Entry(SlugCode, "dir", TRUE,
                                         <<LogFile(FileS2, TRUE, GoodLines, NoDir)>>)>>))>>],
           [listable |-> TRUE, entries |-> <<>>]>>)

ParseRoots ==
    {Root(p, l, NoJson) :
        p \in {NoDir, Unlistable} \cup {Dir(l2) : l2 \in Listings(MaxDirs, [i \in 1..Len(SlugPool) |-> EntriesNamed(SlugPool[i])])},
        l \in {NoLams, LamsSmall}}
ParseDisks == {Disk("other", r, NoRoot, NoRoot) : r \in ParseRoots}

InitClaudeCode == \E d \in ParseDisks : StartParse("claude-code", d)
InitCowork == \E d \in ParseDisks : StartParse("cowork", d)

SpecCode == (InitClaudeCode \/ InitCowork) /\ [][NextClaudeCode \/ NextCowork]_vars

\* the four adapters, each on the exports of its provider
Init == InitChatGPT \/ InitClaudeWeb \/ InitClaudeCode \/ InitCowork
Next == NextChatGPT \/ NextClaudeWeb \/ NextClaudeCode \/ NextCowork
Spec == Init /\ [][Next]_vars

\* -- detection inputs: the entries matter by kind and by readdir order
DetectEntriesNamed(slug) ==
    { Entry(slug, "nostat", FALSE, <<>>),
      Entry(slug, "file", FALSE, <<>>),
      Entry(slug, "dir", FALSE, <<>>),
      Entry(slug, "dir", TRUE, <<LogFile(FileNotes, TRUE, <<>>, NoDir)>>),
      Entry(slug, "dir", TRUE, <<LogFile(FileS1, TRUE, GoodLines, NoDir)>>) }
DetectPool == [i \in 1..Len(SlugPool) |-> DetectEntriesNamed(SlugPool[i])]
DetectListings ==
    Listings(MaxDirs, DetectPool) \cup {Reverse(l) : l \in Listings(MaxDirs, DetectPool)}
JsonFiles ==
    { NoJson, BadJson, NotArray,
      JsonArray(TRUE, FALSE, {}),
      JsonArray(FALSE, FALSE, {}),
      JsonArray(FALSE, TRUE, {"id", "mapping"}),
      JsonArray(FALSE, TRUE, {"uuid", "chat_messages"}),
      JsonArray(FALSE, TRUE, {"uuid", "chat_messages", "mapping"}),
      JsonArray(FALSE, TRUE, {"uuid", "name"}) }
DetectRoots ==
    {NoRoot} \cup
    {Root(p, l, j) :
        p \in {NoDir, Unlistable} \cup {Dir(l2) : l2 \in DetectListings},
        l \in {NoLams, Lams(<<[listable |-> TRUE, entries |-> <<>>]>>)},
        j \in JsonFiles}
DetectDisks == {Disk("other", r, NoRoot, NoRoot) : r \in DetectRoots}

InitDetect == \E d \in DetectDisks : StartParse("detect", d)
SpecDetect == InitDetect /\ [][NextDetect]_vars

\* ---------------------------------------------------------------- merge inputs
\* one Cowork session: a main log of 1..MaxLog records and two subagent
\* logs; every record has a uuid of its own, and a timestamp or none
MainIds == <<"m1", "m2", "m3", "m4">>
AgentAIds == <<"a1", "a2", "a3", "a4">>
AgentBIds == <<"b1", "b2">>
Stamps == {Absent} \cup {Ts(n) : n \in 1..MaxTs}
\* a main record is a user message, or a progress record (no message)
MainChoices ==
    {[ts |-> t, quiet |-> FALSE] : t \in Stamps} \cup {[ts |-> Ts(1), quiet |-> TRUE]}
MainLog(cs) ==
    [i \in 1..Len(cs) |->
        IF cs[i].quiet THEN Rec("progress", MainIds[i], cs[i].ts, NoMessage)
        ELSE UserRec(MainIds[i], cs[i].ts, TextAB)]
AgentLog(ids, tss) == [i \in 1..Len(tss) |-> UserRec(ids[i], tss[i], TextY)]

MergeSessions ==
    {LogFile(FileS1, TRUE, MainLog(m),
             Dir(<<LogFile(AgentB, TRUE, AgentLog(AgentBIds, b), NoDir),
                   LogFile(AgentA, TRUE, AgentLog(AgentAIds, a), NoDir)>>)) :
        m \in NonEmptySeqsUpTo(MainChoices, MaxLog),
        a \in SeqsUpTo(Stamps, MaxLog),
        b \in {<<>>, <<Ts(1)>>}}
MergeDisks ==
    {Disk("other",
          Root(Dir(<<Entry(SlugCowork, "dir", TRUE, <<f>>)>>), NoLams, NoJson),
          NoRoot, NoRoot) : f \in MergeSessions}

InitMerge == \E d \in MergeDisks : StartParse("cowork", d)
SpecMerge == InitMerge /\ [][NextCowork]_vars

\* the records of a log that give a message, with the raw timestamp's rank
\* ("" for none) and the log they are from
LogEntries(lines, fromSubagent) ==
    {[id |-> lines[i].uuid, key |-> SortKey(lines[i].timestamp), sub |-> fromSubagent] :
        i \in {j \in 1..Len(lines) : lines[j].k = "rec" /\ RecordMessages(lines[j]) # <<>>}}
SessionEntries(info) ==
    LogEntries(info.mainFile.lines, FALSE)
    \cup UNION {LogEntries(info.subagentFiles[i].lines, TRUE) :
                    i \in 1..Len(info.subagentFiles)}
EntryOf(info, msg) == CHOOSE e \in SessionEntries(info) : e.id = msg.source_id

\* C3: the messages of a yielded Cowork session are exactly the messages of
\* its main log and of its subagent logs, in non-decreasing order of raw
\* timestamp string; a subagent message with a smaller timestamp precedes
\* the main-log message, and on equal timestamps main-log messages precede
\* subagent messages.
C3_MergedByTimestamp ==
    (adapter = "cowork" /\ Len(sessions) = 1 /\ yielded # <<>>) =>
    LET info == sessions[1].info
        msgs == yielded[1].messages
    IN /\ Len(yielded) = 1
       /\ Len(msgs) = Cardinality(SessionEntries(info))
       /\ {msgs[i].source_id : i \in 1..Len(msgs)} = {e.id : e \in SessionEntries(info)}
       /\ \A i \in 1..Len(msgs) : msgs[i].is_subagent = EntryOf(info, msgs[i]).sub
       /\ \A i, j \in 1..Len(msgs) :
            LET a == EntryOf(info, msgs[i])
                b == EntryOf(info, msgs[j])
            IN /\ (i < j => a.key <= b.key)
               /\ (a.sub /\ ~b.sub /\ a.key < b.key => i < j)
               /\ (~a.sub /\ b.sub /\ a.key = b.key => i < j)

C3_Witness ==
    /\ adapter = "cowork" /\ pc = "done" /\ Len(sessions) = 1 /\ Len(yielded) = 1
    /\ LET info == sessions[1].info
           msgs == yielded[1].messages
       IN /\ \E i, j \in 1..Len(msgs) :
                /\ i < j /\ msgs[i].is_subagent /\ ~msgs[j].is_subagent
                /\ EntryOf(info, msgs[i]).key < EntryOf(info, msgs[j]).key
          /\ \E i, j \in 1..Len(msgs) :
                /\ ~msgs[i].is_subagent /\ msgs[j].is_subagent
                /\ EntryOf(info, msgs[i]).key = EntryOf(info, msgs[j]).key
          /\ \E i \in 1..Len(info.mainFile.lines) : info.mainFile.lines[i].type = "progress"

\* ---------------------------------------------------------------- detection claims
SourceRoot == RootAt(input, input.sourcePath)
ProbeOrder == <<"chatgpt", "claude-web", "cowork", "claude-code">>
FirstDetecting(root) ==
    IF \E k \in 1..4 : Detects(ProbeOrder[k], root)
      THEN ProbeOrder[CHOOSE k \in 1..4 :
              Detects(ProbeOrder[k], root) /\ \A j \in 1..(k - 1) : ~Detects(ProbeOrder[j], root)]
      ELSE "null"

\* C2: detectProvider probes ChatGPT, Claude-Web, Cowork, Claude-Code in
\* that order and returns the first whose detect is true, null when none
\* is; so where both the Cowork and the Claude-Code detect are true the
\* returned adapter is never Claude-Code, and it is Cowork unless the
\* ChatGPT or the Claude-Web detect is true as well.
C2_FirstMatch ==
    adapter = "detect" =>
       /\ (pc = "next" => \A k \in 1..(idx - 1) : ~Detects(ProbeOrder[k], SourceRoot))
       /\ (pc = "done" =>
             /\ detected = FirstDetecting(SourceRoot)
             /\ (CoworkDetect(SourceRoot) /\ ClaudeCodeDetect(SourceRoot) =>
                   /\ detected # "claude-code"
                   /\ (~ChatGPTDetect(SourceRoot) /\ ~ClaudeWebDetect(SourceRoot)
                          => detected = "cowork")))

C2_Witness ==
    /\ adapter = "detect" /\ pc = "done" /\ detected = "cowork"
    /\ CoworkDetect(SourceRoot) /\ ClaudeCodeDetect(SourceRoot)

\* C2 as first stated: the first match in probe order is returned, hence on
\* every directory where both the Cowork and the Claude-Code detect are
\* true the returned adapter is Cowork.
C2_CoworkWheneverBoth ==
    (adapter = "detect" /\ pc = "done") =>
       /\ detected = FirstDetecting(SourceRoot)
       /\ (CoworkDetect(SourceRoot) /\ ClaudeCodeDetect(SourceRoot) => detected = "cowork")

HasPrefixedEntry(projects) ==
    \E i \in 1..Len(projects.entries) : StartsWith(projects.entries[i].name, CoworkPrefix)

\* C7: CoworkAdapter.detect is true exactly when projects/ holds an entry
\* with the prefix -sessions- or the local-agent-mode-sessions directory
\* exists; it is false on a bare Claude-Code layout.
C7_DetectExactly ==
    adapter = "detect" =>
       /\ CoworkDetect(SourceRoot) <=>
             (SourceRoot.exists /\ (HasPrefixedEntry(SourceRoot.projects) \/ SourceRoot.lams.exists))
       /\ (/\ SourceRoot.projects.exists
           /\ ~HasPrefixedEntry(SourceRoot.projects)
           /\ ~SourceRoot.lams.exists) => ~CoworkDetect(SourceRoot)

\* ---------------------------------------------------------------- parse claims
Pair(project, id) == [project |-> project, id |-> id]
YieldedPairs == {Pair(yielded[i].project_source_id, yielded[i].source_id) : i \in 1..Len(yielded)}
Qualifying(file) == file.readable /\ LogEntries(file.lines, FALSE) # {}
\* the sessions with a qualifying message each adapter is to yield
CodeExpected(projects) ==
    UNION {{Pair(projects.entries[i].name, Basename(projects.entries[i].files[j].name)) :
              j \in {k \in 1..Len(projects.entries[i].files) :
                       /\ IsJsonl(projects.entries[i].files[k].name)
                       /\ Qualifying(projects.entries[i].files[k])}} :
           i \in {k \in 1..Len(projects.entries) :
                    /\ projects.entries[k].kind = "dir" /\ projects.entries[k].listable
                    /\ ~StartsWith(projects.entries[k].name, CoworkPrefix)}}
CoworkExpected(disk) ==
    LET found == Flatten(discoverAllSessions(disk))
    IN {Pair(found[i].projectPath, found[i].info.sessionId) :
          i \in {k \in 1..Len(found) : Qualifying(found[k].info.mainFile)}}

\* C4: in the parse of the Claude Code and of the Cowork adapter no
\* malformed log line, unreadable session file or unreadable project
\* directory entry aborts the sequence; it is skipped and every other
\* session with a qualifying message is yielded.
C4_NeverAborts ==
    /\ adapter = "claude-code" =>
          /\ pc # "thrown"
          /\ (pc = "done" => CodeExpected(SourceRoot.projects) \subseteq YieldedPairs)
    /\ adapter = "cowork" =>
          /\ pc # "thrown"
          /\ (pc = "done" => CoworkExpected(input) \subseteq YieldedPairs)

WellFormedNode(node) ==
    /\ node.children # NoList
    /\ node.message.def => (node.message.author # Undef /\ node.message.content # NoContent)
GivesMessage(node) ==
    /\ node.message.def /\ node.message.author \in Roles /\ node.message.content # NoContent
    /\ \/ node.message.author = "system"
       \/ flattenContentToText(extractContent(node.message.content)) # <<>>

\* C5: in ChatGPTAdapter.parse a conversation with a malformed node never
\* aborts the sequence; at worst that conversation is missing and every
\* other conversation that has messages is yielded.
C5_NeverAborts ==
    adapter = "chatgpt" =>
       /\ pc # "thrown"
       /\ (pc = "done" =>
             \A c \in 1..Len(input) :
                (/\ \A n \in 1..Len(input[c].mapping) : WellFormedNode(input[c].mapping[n])
                 /\ \E n \in 1..Len(input[c].mapping) : GivesMessage(input[c].mapping[n]))
                => \E y \in 1..Len(yielded) : yielded[y].source_id = input[c].id)

LamsKeyed(key) == StartsWith(key, <<"lams", ":">>)

\* C6: the Claude Code adapter's detect, parse and parseProjects never take
\* a slug with the prefix -sessions-, and the standard-layout discovery of
\* the Cowork adapter never takes a slug without it; so no session under
\* projects/ is yielded by both adapters.
C6_SlugPartition ==
    adapter \in {"claude-code", "cowork"} =>
    LET projects == SourceRoot.projects
        standard == discoverProjectSessions(projects, TRUE)
        coworkPairs == {Pair(Flatten(standard)[i].projectPath, Flatten(standard)[i].info.sessionId) :
                           i \in 1..Len(Flatten(standard))}
        listed == ClaudeCodeParseProjects(input).projects
    IN /\ ClaudeCodeDetect(SourceRoot) =>
             \E i \in 1..Len(projects.entries) :
                /\ ~StartsWith(projects.entries[i].name, CoworkPrefix)
                /\ projects.entries[i].kind = "dir"
                /\ JsonlFiles(projects.entries[i]) # <<>>
       /\ \A i \in 1..Len(listed) : ~StartsWith(listed[i].source_id, CoworkPrefix)
       /\ \A i \in 1..Len(standard) : StartsWith(standard[i].key, CoworkPrefix)
       /\ adapter = "claude-code" =>
             /\ \A i \in 1..Len(yielded) :
                   ~StartsWith(yielded[i].project_source_id, CoworkPrefix)
             /\ YieldedPairs \cap coworkPairs = {}
       /\ adapter = "cowork" =>
             /\ \A i \in 1..Len(sessions) :
                   \/ StartsWith(sessions[i].projectPath, CoworkPrefix)
                   \/ LamsKeyed(sessions[i].projectPath)
             /\ \A i \in 1..Len(yielded) :
                   \/ StartsWith(yielded[i].project_source_id, CoworkPrefix)
                   \/ LamsKeyed(yielded[i].project_source_id)
             /\ YieldedPairs \cap CodeExpected(projects) = {}

C6_Witness ==
    /\ adapter = "claude-code" /\ pc = "done" /\ yielded # <<>>
    /\ CoworkExpected(input) # {}
    /\ \E i \in 1..Len(SourceRoot.projects.entries) :
          /\ StartsWith(SourceRoot.projects.entries[i].name, CoworkPrefix)
          /\ Pair(SourceRoot.projects.entries[i].name, Basename(FileS1)) \in CoworkExpected(input)

\* C8: every conversation an adapter yields has at least one message; a
\* conversation or session left with no message is dropped.
C8_NoEmptyShell ==
    \A i \in 1..Len(yielded) :
       /\ yielded[i].message_count >= 1
       /\ Len(yielded[i].messages) >= 1

C8_Witness ==
    /\ adapter = "claude-web" /\ pc = "done"
    /\ yielded # <<>> /\ Len(yielded) < Len(input)
    /\ \E c \in 1..Len(input) :
          /\ input[c].chat_messages # NoArray
          /\ input[c].chat_messages # <<>>
          /\ \A y \in 1..Len(yielded) : yielded[y].source_id # input[c].uuid

\* C9: every yielded conversation has message_count equal to the number of
\* its messages and total_words equal to the sum of their word_count, and
\* every yielded message has word_count equal to countWords of its text.
C9_DerivedAggregates ==
    \A i \in 1..Len(yielded) :
       /\ yielded[i].message_count = Len(yielded[i].messages)
       /\ yielded[i].total_words =
             SumSeq([k \in 1..Len(yielded[i].messages) |-> countWords(yielded[i].messages[k].text)])
       /\ \A k \in 1..Len(yielded[i].messages) :
             yielded[i].messages[k].word_count = countWords(yielded[i].messages[k].text)

C9_Witness ==
    /\ adapter = "claude-web" /\ pc = "done"
    /\ \E i \in 1..Len(yielded) :
          /\ Len(yielded[i].messages) >= 2
          /\ yielded[i].total_words >= 3
          /\ \E k \in 1..Len(yielded[i].messages) :
                /\ Len(yielded[i].messages[k].content) >= 2
                /\ yielded[i].messages[k].word_count >= 2

\* C10: every message an adapter yields has a role among user, assistant,
\* system and tool.
C10_RoleInRoles ==
    \A i \in 1..Len(yielded) :
       \A k \in 1..Len(yielded[i].messages) : yielded[i].messages[k].role \in Roles

\* ---------------------------------------------------------------- timestamp coercion
\* toIsoTimestamp on one value: the instant, or the RangeError it throws
Coerce ==
    /\ adapter = "coerce" /\ pc = "next"
    /\ LET iso == toIsoTimestamp(input)
       IN IF iso = RangeError
            THEN pc' = "thrown" /\ UNCHANGED result
            ELSE pc' = "done" /\ result' = <<iso>>
    /\ UNCHANGED <<adapter, input, idx, sidx, sessions, detected, currentId, yielded,
                 pulls, reads, previous>>

NextTime == Coerce

\* second counts, the millisecond counts of the same instants, numbers at
\* the ends of the range of Date, strings Date parses or does not, and
\* values that are neither number nor string
TimeValues ==
    {Absent, NaN, Infinite, OtherType}
    \cup {Num(n) : n \in 0..MaxSec}
    \cup {Num(1000 * n) : n \in 0..MaxSec}
    \cup {Num(n) : n \in {-1, -86400, -86401, MsThreshold, MsThreshold + 1,
                          MaxDate, MaxDate + 1}}
    \cup {Str(o, i) : o \in 1..2, i \in {-1, 0, 1700}}

InitTime == \E v \in TimeValues : StartParse("coerce", v)
SpecTime == InitTime /\ [][NextTime]_vars

Unparseable(value) ==
    \/ value.k \in {"absent", "other", "nan", "inf"}
    \/ value.k = "str" /\ value.inst < 0
    \/ value.k = "num" /\ (EpochMs(value.v) > MaxDate \/ EpochMs(value.v) < -MaxDate)

\* C12: toIsoTimestamp never raises an error; for every value it returns
\* an instant, and the epoch origin for anything absent or unparseable.
C12_NeverRaises ==
    adapter = "coerce" =>
       /\ pc # "thrown"
       /\ (pc = "done" =>
             /\ result[1].k = "iso"
             /\ (Unparseable(input) => result[1] = Epoch))

\* C13: a number above 10^12 is taken as epoch milliseconds and any other
\* number as epoch seconds; so a seconds value s and the milliseconds value
\* 1000*s give the identical instant whenever s <= 10^12 < 1000*s.
C13_SecondsAndMillis ==
    (adapter = "coerce" /\ pc = "done" /\ input.k = "num") =>
       /\ (input.v > MsThreshold => result[1] = Iso(input.v))
       /\ (input.v <= MsThreshold => result[1] = Iso(1000 * input.v))
       /\ (input.v <= MsThreshold /\ 1000 * input.v > MsThreshold =>
             toIsoTimestamp(Num(1000 * input.v)) = result[1])

C13_Witness ==
    /\ adapter = "coerce" /\ pc = "done"
    /\ input = Num(17) /\ result = <<Iso(17000)>>
    /\ toIsoTimestamp(Num(17000)) = Iso(17000)

\* ---------------------------------------------------------------- created_at
MessagesWithId(mapping, id) ==
    {n \in 1..Len(mapping) : mapping[n].message.def /\ mapping[n].message.id = id}
RawWithUuid(chatMessages, uuid) ==
    {n \in 1..Len(chatMessages) : chatMessages[n].uuid = uuid}

\* C11: the created_at of every yielded message and conversation is an
\* instant that toIsoTimestamp produced, and it is the epoch origin when
\* the source timestamp is absent or unparseable.
C11_CreatedAtCoerced ==
    \A i \in 1..Len(yielded) :
       /\ yielded[i].created_at.k = "iso"
       /\ \A k \in 1..Len(yielded[i].messages) : yielded[i].messages[k].created_at.k = "iso"
       /\ adapter = "chatgpt" =>
             LET conv == input[yielded[i].source_id]
             IN /\ Unparseable(conv.create_time) => yielded[i].created_at = Epoch
                /\ \A k \in 1..Len(yielded[i].messages) :
                      \A n \in MessagesWithId(conv.mapping, yielded[i].messages[k].source_id) :
                         Unparseable(conv.mapping[n].message.create_time)
                            => yielded[i].messages[k].created_at = Epoch
       /\ adapter = "claude-web" =>
             LET conv == input[yielded[i].source_id]
             IN /\ Unparseable(conv.created_at) => yielded[i].created_at = Epoch
                /\ \A k \in 1..Len(yielded[i].messages) :
                      \A n \in RawWithUuid(conv.chat_messages, yielded[i].messages[k].source_id) :
                         Unparseable(conv.chat_messages[n].created_at)
                            => yielded[i].messages[k].created_at = Epoch

\* ---------------------------------------------------------------- Claude.ai web claims
NoTextButOther(msgRaw) ==
    /\ msgRaw.content # NoArray
    /\ \A b \in 1..Len(msgRaw.content) : msgRaw.content[b].type # "text"
    /\ \E b \in 1..Len(msgRaw.content) :
          msgRaw.content[b].type \in {"thinking", "tool_use", "tool_result"}

\* C14: a Claude.ai message whose content has no text block but at least
\* one other block is still emitted as one message, and its flattened text
\* is made of its parts' labels.
C14_StillEmitted ==
    (adapter = "claude-web" /\ pc = "done") =>
       \A c \in 1..Len(input) :
          input[c].chat_messages # NoArray =>
             \A n \in 1..Len(input[c].chat_messages) :
                NoTextButOther(input[c].chat_messages[n]) =>
                   \E y \in 1..Len(yielded) :
                      /\ yielded[y].source_id = input[c].uuid
                      /\ \E k \in 1..Len(yielded[y].messages) :
                            /\ yielded[y].messages[k].source_id = input[c].chat_messages[n].uuid
                            /\ yielded[y].messages[k].text =
                                  flattenContentToText(WebParts(input[c].chat_messages[n].content))

\* ---------------------------------------------------------------- pull-driven sequences
ReadSet == {reads[i] : i \in 1..Len(reads)}
\* the log files parse of the Claude Code adapter goes through, as pairs
CodeLogFiles(projects) ==
    UNION {{Pair(projects.entries[i].name, JsonlFiles(projects.entries[i])[j].name) :
              j \in 1..Len(JsonlFiles(projects.entries[i]))} :
           i \in {k \in 1..Len(projects.entries) : ~CodeSkips(projects.entries[k])}}
\* a comes after b in the order of the two sorted loops
ComesAfter(a, b) ==
    \/ Rank(a.project) > Rank(b.project)
    \/ a.project = b.project /\ Rank(a.id) > Rank(b.id)
SessionAt(conv) ==
    CHOOSE i \in 1..Len(sessions) :
       /\ sessions[i].projectPath = conv.project_source_id
       /\ sessions[i].info.sessionId = conv.source_id

\* C17: parse of the Claude Code and of the Cowork adapter reads nothing
\* before the first pull, and when the consumer holds k conversations and
\* has not pulled again, the last file read belongs to the session that
\* gave the k-th one and every session log after it is unread.
C17_PullDriven ==
    adapter \in {"claude-code", "cowork"} =>
       /\ pulls = 0 => reads = <<>>
       /\ pulls \in {Len(yielded), Len(yielded) + 1}
       /\ (pulls = Len(yielded) /\ yielded # <<>>) =>
             LET last == LastOf(yielded)
             IN /\ LastOf(reads).project = last.project_source_id
                /\ Basename(LastOf(reads).file) = last.source_id
                /\ adapter = "claude-code" =>
                      \A f \in CodeLogFiles(SourceRoot.projects) :
                         ComesAfter(f, Pair(last.project_source_id, LastOf(reads).file))
                            => ReadOf(f.project, f.id, <<>>) \notin ReadSet
                /\ adapter = "cowork" =>
                      \A j \in (SessionAt(last) + 1)..Len(sessions) :
                         \A r \in ReadSet :
                            ~(/\ r.project = sessions[j].projectPath
                              /\ r.file = sessions[j].info.mainFile.name)

C17_Witness ==
    /\ adapter = "claude-code" /\ pulls = 1 /\ Len(yielded) = 1 /\ pc # "done"
    /\ \E f \in CodeLogFiles(SourceRoot.projects) :
          /\ ComesAfter(f, Pair(yielded[1].project_source_id, LastOf(reads).file))
          /\ Pair(f.project, Basename(f.id)) \in CodeExpected(SourceRoot.projects)
    /\ Len(reads) >= 1

\* ---------------------------------------------------------------- repeated parse
\* the same export, with readdir free to list projects/ and the project
\* directories in another order
Relisted(entries) ==
    Reverse([i \in 1..Len(entries) |-> [entries[i] EXCEPT !.files = Reverse(@)]])
Relistings(a, in) ==
    IF a \in {"claude-code", "cowork"} /\ in.other.projects.listable
      THEN {in, [in EXCEPT !.other.projects.entries = Relisted(@)]}
      ELSE {in}

\* a second parse call over the same export: a new generator, whose locals
\* (tallies, message lists, timestamp lists, the walk's cursor) are new
Again ==
    /\ adapter \in {"chatgpt", "claude-web", "claude-code", "cowork"}
    /\ pc \in {"done", "thrown"}
    /\ previous = <<>>
    /\ previous' = <<[yielded |-> yielded, pc |-> pc, input |-> input]>>
    /\ input' \in Relistings(adapter, input)
    /\ pc' = "next" /\ idx' = 1 /\ sidx' = 1 /\ sessions' = <<>>
    /\ currentId' = 0 /\ result' = <<>> /\ yielded' = <<>>
    /\ pulls' = 0 /\ reads' = <<>>
    /\ UNCHANGED <<adapter, detected>>

SpecTwice == Init /\ [][Next \/ Again]_vars

\* parseProjects of the Cowork adapter
CoworkParseProjects(disk) ==
    LET found == discoverAllSessions(disk)
    IN [i \in 1..Len(found) |->
          [source_id |-> found[i].key, provider |-> "cowork",
           conversation_count |-> Len(found[i].value)]]

IsPrefixOf(a, b) == Len(a) <= Len(b) /\ SubSeq(b, 1, Len(a)) = a

\* C15: a second parse (or parseProjects) over the unmodified export yields
\* the same conversations (projects) in the same order as the first, and
\* ends the same way; nothing of the first call is left in the second.
C15_Deterministic ==
    previous # <<>> =>
       /\ IsPrefixOf(yielded, previous[1].yielded)
       /\ (pc \in {"done", "thrown"} =>
             yielded = previous[1].yielded /\ pc = previous[1].pc)
       /\ adapter = "claude-code" =>
             ClaudeCodeParseProjects(input) = ClaudeCodeParseProjects(previous[1].input)
       /\ adapter = "cowork" =>
             CoworkParseProjects(input) = CoworkParseProjects(previous[1].input)

C15_Witness ==
    /\ previous # <<>> /\ pc = "done" /\ adapter = "claude-code"
    /\ input # previous[1].input
    /\ Len(yielded) >= 2
    /\ yielded[1].source_id # yielded[2].source_id

\* ---------------------------------------------------------------- project references
\* parseProjects of the ChatGPT adapter: the conversations grouped by
\* gizmo_id in a Map, one project per key in insertion order (the name,
\* inferred from the titles, is not part of these records)
RECURSIVE GroupByGizmo(_, _)
GroupByGizmo(conversations, projectMap) ==
    IF conversations = <<>> THEN projectMap
    ELSE LET conv == Head(conversations)
         IN IF conv.gizmo_id \in {Undef, ""}
              THEN GroupByGizmo(Tail(conversations), projectMap)
              ELSE GroupByGizmo(Tail(conversations),
                      MapSet(projectMap, conv.gizmo_id,
                             IF MapHas(projectMap, conv.gizmo_id)
                               THEN MapGet(projectMap, conv.gizmo_id) + 1 ELSE 1))
ChatGPTParseProjects(conversations) ==
    LET projectMap == GroupByGizmo(conversations, <<>>)
    IN [i \in 1..Len(projectMap) |->
          [source_id |-> projectMap[i].key, provider |-> "chatgpt",
           conversation_count |-> projectMap[i].value]]

\* the projects parseProjects hands over for the input of the running parse
\* (those yielded before an error, if it ends by one); the Claude.ai web
\* adapter takes its projects from projects.json, which no conversation
\* of conversations.json refers to
ProjectsYielded ==
    IF adapter = "chatgpt" THEN ChatGPTParseProjects(input)
    ELSE IF adapter = "claude-code" THEN ClaudeCodeParseProjects(input).projects
    ELSE IF adapter = "cowork" THEN CoworkParseProjects(input)
    ELSE <<>>

\* the log adapters always set project_source_id, to a directory name
HasProjectRef(conv) ==
    conv.provider \in {"claude-code", "cowork"} \/ conv.project_source_id # Undef

Resolves(conv) ==
    \E i \in 1..Len(ProjectsYielded) :
        /\ ProjectsYielded[i].source_id = conv.project_source_id
        /\ ProjectsYielded[i].provider = conv.provider

\* C16: every yielded conversation whose project_source_id is defined
\* names the source_id of a project that parseProjects yields for the same
\* input, under the same provider.
C16_ReferencesResolve ==
    \A i \in 1..Len(yielded) : HasProjectRef(yielded[i]) => Resolves(yielded[i])

\* ---------------------------------------------------------------- detection errors
Providers == {"chatgpt", "claude-web", "cowork", "claude-code"}

\* C18: detect of every adapter resolves to true or false on every path and
\* never throws, so detectProvider never ends by an error, and it returns
\* null exactly when no adapter matches.
C18_DetectIsBoolean ==
    adapter = "detect" =>
       /\ \A p \in Providers : DetectOutcome(p, SourceRoot) \in {"true", "false"}
       /\ pc # "thrown"
       /\ (pc = "done" => (detected = "null" <=> \A p \in Providers : ~Detects(p, SourceRoot)))

C18_Witness ==
    /\ adapter = "detect" /\ pc = "done" /\ detected = "null"
    /\ SourceRoot.conversations.k = "garbage"
    /\ SourceRoot.projects.exists /\ SourceRoot.projects.listable
    /\ Len(SourceRoot.projects.entries) > 0
    /\ SourceRoot.projects.entries[1].kind = "nostat"

\* ---------------------------------------------------------------- project names
\* encoded.replace(/-/g, "/")
ReplaceDashes(encoded) ==
    [i \in 1..Len(encoded) |-> IF encoded[i] = "-" THEN "/" ELSE encoded[i]]
StripLeadingSlash(pathStr) ==
    IF pathStr # <<>> /\ pathStr[1] = "/" THEN Tail(pathStr) ELSE pathStr
\* pathStr.split("/"): the pieces between separators, empty ones included
RECURSIVE SplitSlash(_, _, _)
SplitSlash(pathStr, piece, acc) ==
    IF pathStr = <<>> THEN Append(acc, piece)
    ELSE IF Head(pathStr) = "/" THEN SplitSlash(Tail(pathStr), <<>>, Append(acc, piece))
    ELSE SplitSlash(Tail(pathStr), Append(piece, Head(pathStr)), acc)
\* toLowerCase, on the words of the model
LowerWord(w) == IF w = "Users" THEN "users" ELSE IF w = "HOME" THEN "home" ELSE w
toLowerCase(str) == [i \in 1..Len(str) |-> LowerWord(str[i])]
IsHomeMarker(part) == toLowerCase(part) \in {<<"users">>, <<"home">>}

\* parts.slice(i + 2), counting from one
MeaningfulFrom_Next(i) == i + 1
MeaningfulFrom(i) == i + 2

decodeProjectPath(encoded) ==
    LET parts == SelectSeq(SplitSlash(StripLeadingSlash(ReplaceDashes(encoded)), <<>>, <<>>),
                           LAMBDA part : part # <<>>)
        markers == {i \in 1..Len(parts) : IsHomeMarker(parts[i])}
    IN IF parts = <<>> THEN encoded
       ELSE IF markers = {} THEN parts[Len(parts)]
       ELSE LET i == CHOOSE m \in markers : \A o \in markers : m <= o
                meaningful == SubSeq(parts, MeaningfulFrom(i), Len(parts))
            IN IF meaningful # <<>> THEN JoinWith(meaningful, <<"/">>)
               ELSE parts[Len(parts)]

\* decodeProjectPath on one slug
Decode ==
    /\ adapter = "decode" /\ pc = "next"
    /\ pc' = "done"
    /\ result' = <<decodeProjectPath(input)>>
    /\ UNCHANGED <<adapter, input, idx, sidx, sessions, detected, currentId, yielded,
                 pulls, reads, previous>>

NextDecode == Decode

\* slugs of up to MaxSlug pieces, each a dash or a word, and the two of the tests
MaxSlug == 6
SlugWords == {"-", "Users", "HOME", "jemrashbass", "project"}
SlugUsers == <<"-", "Users", "-", "jemrashbass", "-", "project">>
SlugVar == <<"-", "var", "-", "data", "-", "myapp">>
Slugs == SeqsUpTo(SlugWords, MaxSlug) \cup {SlugUsers, SlugVar}

InitDecode == \E s \in Slugs : StartParse("decode", s)
SpecDecode == InitDecode /\ [][NextDecode]_vars

\* the segments of a slug: its maximal runs without a dash, left to right
SegmentRuns(slug) ==
    {r \in (1..Len(slug)) \X (1..Len(slug)) :
        /\ r[1] <= r[2]
        /\ \A k \in r[1]..r[2] : slug[k] # "-"
        /\ (r[1] = 1 \/ slug[r[1] - 1] = "-")
        /\ (r[2] = Len(slug) \/ slug[r[2] + 1] = "-")}
SegmentCount(slug) == Cardinality(SegmentRuns(slug))
SegmentAt(slug, n) ==
    LET r == CHOOSE q \in SegmentRuns(slug) :
                 Cardinality({o \in SegmentRuns(slug) : o[1] < q[1]}) = n - 1
    IN SubSeq(slug, r[1], r[2])
MarkerAt(slug, n) == toLowerCase(SegmentAt(slug, n)) \in {<<"users">>, <<"home">>}
\* the path of the segments from the n-th on
PathFrom(slug, n) ==
    JoinWith([k \in 1..(SegmentCount(slug) - n + 1) |-> SegmentAt(slug, n + k - 1)], <<"/">>)

\* C19, as stated: when some segment is `users` or `home` (in any case) the
\* result is the path that begins two segments after that marker; otherwise
\* it is the last segment.
C19_AfterMarkerOrLast ==
    (adapter = "decode" /\ pc = "done") =>
       LET n == SegmentCount(input)
       IN IF \E m \in 1..n : MarkerAt(input, m)
            THEN \E m \in 1..n : MarkerAt(input, m) /\ result[1] = PathFrom(input, m + 2)
            ELSE n > 0 /\ result[1] = SegmentAt(input, n)

\* C19, amended: the result is the path that begins two segments after the
\* first marker when there is such a path; it is the last segment when there
\* is no marker or fewer than two segments follow the first; a slug with no
\* segment at all is returned as it is.  "-Users-jemrashbass-project" gives
\* "project" and "-var-data-myapp" gives "myapp".
C19_Decoded ==
    (adapter = "decode" /\ pc = "done") =>
       LET n == SegmentCount(input)
           markers == {m \in 1..n : MarkerAt(input, m)}
       IN /\ n = 0 => result[1] = input
          /\ (n > 0 /\ markers = {}) => result[1] = SegmentAt(input, n)
          /\ markers # {} =>
                LET m == CHOOSE f \in markers : \A o \in markers : f <= o
                IN IF m + 2 <= n THEN result[1] = PathFrom(input, m + 2)
                   ELSE result[1] = SegmentAt(input, n)
          /\ input = SlugUsers => result[1] = <<"project">>
          /\ input = SlugVar => result[1] = <<"myapp">>

C19_Witness ==
    /\ adapter = "decode" /\ pc = "done"
    /\ input = <<"-", "Users", "-", "HOME", "-", "project">>
    /\ result = <<<<"project">>>>

\* ---------------------------------------------------------------- Cowork titles
\* texts of one character per piece, around the two lengths that matter:
\* short, exactly at and above the minimum, padded with white space, with a
\* newline inside, and at and above the cut
Rep(c, n) == [i \in 1..n |-> c]
TitleTexts ==
    { Rep("a", MinTitleChars - 1),
      Rep("b", MinTitleChars),
      Rep("c", MinTitleChars + 1),
      <<" ">> \o Rep("d", MinTitleChars - 1) \o <<"\n">>,
      Rep("e", 5) \o <<"\n">> \o Rep("f", 5),
      Rep("g", TitleChars),
      Rep("h", TitleChars + 1),
      Rep("i", TitleChars - 1) \o <<" ", "j", "k">> }

\* one session: an assistant record and two user records in the main log,
\* and at most one subagent log whose user record is the oldest of all
TitleSessions ==
    {LogFile(FileS1, TRUE,
             <<AsstRec("m0", Ts(2)), UserRec("m1", Ts(3), t[1]), UserRec("m2", Ts(4), t[2])>>,
             sub) :
        t \in [1..2 -> TitleTexts],
        sub \in {NoDir} \cup {Dir(<<LogFile(AgentA, TRUE, <<UserRec("a1", Ts(1), a)>>, NoDir)>>) :
                                a \in TitleTexts}}
TitleDisks ==
    {Disk("other",
          Root(Dir(<<Entry(SlugCowork, "dir", TRUE, <<f>>)>>), NoLams, NoJson),
          NoRoot, NoRoot) : f \in TitleSessions}

InitTitle == \E d \in TitleDisks : StartParse("cowork", d)
SpecTitle == InitTitle /\ [][NextCowork]_vars

FirstOf(indices) == CHOOSE i \in indices : \A o \in indices : i <= o
Cut(str) == SubSeq(str, 1, IF Len(str) < TitleChars THEN Len(str) ELSE TitleChars)

\* C20, as stated: the title of a Cowork conversation is made of the first
\* user message, in emitted order, whose text exceeds 10 characters (first
\* 80 characters, an ellipsis when truncated, newlines as spaces); a user
\* message of 10 characters or fewer is never used; with no such message
\* the title is the placeholder.
C20_FirstOverTen ==
    \A c \in 1..Len(yielded) :
       yielded[c].provider = "cowork" =>
          LET ms == yielded[c].messages
              over == {i \in 1..Len(ms) : ms[i].role = "user" /\ Len(ms[i].text) > MinTitleChars}
          IN IF over = {} THEN yielded[c].title = CoworkUntitled
             ELSE LET text == Trim(ms[FirstOf(over)].text)
                  IN yielded[c].title =
                        Trim(NewlinesToSpaces(Cut(text)))
                           \o (IF Len(text) > TitleChars THEN Ellipsis ELSE <<>>)

\* C20, amended: the title is made of the first user message, in emitted
\* order, whose text without the white space around it has at least 10
\* characters: the first 80 characters of that trimmed text, trimmed again,
\* with newlines as spaces, and "..." appended when the trimmed text has
\* more than 80; a user message whose trimmed text has fewer than 10
\* characters is never used; with no such message the title is the
\* placeholder.
C20_FirstAtLeastTen ==
    \A c \in 1..Len(yielded) :
       yielded[c].provider = "cowork" =>
          LET ms == yielded[c].messages
              enough == {i \in 1..Len(ms) :
                            ms[i].role = "user" /\ Len(Trim(ms[i].text)) >= MinTitleChars}
          IN IF enough = {} THEN yielded[c].title = CoworkUntitled
             ELSE LET text == Trim(ms[FirstOf(enough)].text)
                  IN yielded[c].title =
                        Trim(NewlinesToSpaces(Cut(text)))
                           \o (IF Len(text) > TitleChars THEN Ellipsis ELSE <<>>)

\* the oldest user message is too short, and the next, of exactly 10
\* characters, gives the title
C20_Witness ==
    /\ adapter = "cowork" /\ Len(yielded) = 1
    /\ Len(yielded[1].messages) = 4
    /\ yielded[1].messages[1].text = Rep("a", MinTitleChars - 1)
    /\ yielded[1].messages[3].text = Rep("b", MinTitleChars)
    /\ yielded[1].title = Rep("b", MinTitleChars)

\* ---------------------------------------------------------------- primary model
\* the model an assistant record or message may name
ModelChoices == {Undef, "claude-a", "claude-b"}
ModelIds == <<"r1", "r2", "r3">>
\* assistant records with the given models, stamped from ts on
ModelLog(models, ts) ==
    [i \in 1..Len(models) |->
        Rec("assistant", ModelIds[i], Ts(ts + i),
            RecMessage(ArrayContent(<<ObjectBlock("text", TextY, Undef)>>), models[i]))]
\* a main log of one to three assistant records, and for Cowork a subagent
\* log of up to two, all older than the main log's
ModelMainLogs == NonEmptySeqsUpTo(ModelChoices, 3)
ModelAgentLogs == SeqsUpTo(ModelChoices, 2)
ModelDisks ==
    {Disk("other",
          Root(Dir(<<Entry(slug, "dir", TRUE,
                           <<LogFile(FileS1, TRUE, ModelLog(m, 2),
                                     IF a = <<>> THEN NoDir
                                     ELSE Dir(<<LogFile(AgentA, TRUE,
                                                        [i \in 1..Len(a) |->
                                                            [ModelLog(a, 0)[i] EXCEPT !.uuid = AgentAIds[i]]],
                                                        NoDir)>>))>>)>>),
               NoLams, NoJson),
          NoRoot, NoRoot) :
        slug \in {SlugCode, SlugCowork}, m \in ModelMainLogs, a \in ModelAgentLogs}
\* one ChatGPT conversation: a chain of assistant messages with these models
ModelDocs ==
    {<<[id |-> 1, create_time |-> Num(17), gizmo_id |-> Undef,
        mapping |-> ChainOf([i \in 1..Len(m) |->
                       RawMsg(ModelIds[i], "assistant",
                              RawContent("text", <<StrPart(TextY)>>), m[i])])]>> :
     m \in ModelMainLogs}

InitModels ==
    \/ \E d \in ModelDocs : StartParse("chatgpt", d)
    \/ \E d \in ModelDisks : StartParse("claude-code", d) \/ StartParse("cowork", d)
SpecModels == InitModels /\ [][NextChatGPT \/ NextClaudeCode \/ NextCowork]_vars

\* the assistant messages of a conversation that name a model
Modelled(conv) ==
    {i \in 1..Len(conv.messages) :
        conv.messages[i].role = "assistant" /\ conv.messages[i].model # Undef}
UsesOf(conv, m) == Cardinality({i \in Modelled(conv) : conv.messages[i].model = m})
\* the place of message i in the order the adapter read the messages: the
\* Cowork adapter reads the main log before the subagent logs
ReadBefore(conv, i, j) ==
    IF conv.provider = "cowork" /\ conv.messages[i].is_subagent # conv.messages[j].is_subagent
      THEN ~conv.messages[i].is_subagent
      ELSE i < j
MostUsed(conv) ==
    /\ conv.model = Undef <=> Modelled(conv) = {}
    /\ conv.model # Undef =>
          \A i \in Modelled(conv) : UsesOf(conv, conv.model) >= UsesOf(conv, conv.messages[i].model)

Frame(entries, depth, labelParts) ==
    [entries |-> entries, depth |-> depth, labelParts |-> labelParts]
Listing(directory, depth) == [directory |-> directory, depth |-> depth]

\* the head of a call: the depth test, readdir, and the sorted entries
LamsEnter(stack, directory, depth, labelParts) ==
    IF TooDeep(depth, LamsMaxDepth) THEN [stack |-> stack, listed |-> <<>>]
    ELSE [stack |-> IF input.dirs[directory].listable
                      THEN Append(stack, Frame(SortEntries(input.dirs[directory].entries),
                                               depth, labelParts))
                      ELSE stack,
          listed |-> <<Listing(directory, depth)>>]

\* discoverLamsSessions calls findClaudeProjectsRecursive(lamsDir, 5)
LamsCall ==
    /\ adapter = "lams" /\ pc = "next"
    /\ LET e == LamsEnter(<<>>, 1, 0, <<>>)
       IN sessions' = e.stack /\ reads' = reads \o e.listed
    /\ pc' = "walk"
    /\ UNCHANGED <<adapter, input, idx, sidx, detected, currentId, result, yielded,
                 pulls, previous>>

\* one turn of the for loop of the innermost call, or its return
LamsWalk ==
    /\ adapter = "lams" /\ pc = "walk"
    /\ IF sessions = <<>>
         THEN pc' = "done" /\ UNCHANGED <<sessions, result, reads>>
         ELSE LET frame == sessions[Len(sessions)]
                  outer == SubSeq(sessions, 1, Len(sessions) - 1)
              IN /\ UNCHANGED pc
                 /\ IF frame.entries = <<>>
                      THEN sessions' = outer /\ UNCHANGED <<result, reads>>
                      ELSE LET entry == Head(frame.entries)
                               stack == Append(outer, [frame EXCEPT !.entries = Tail(frame.entries)])
                           IN IF StartsWith(entry.name, <<".">>)
                                THEN sessions' = stack /\ UNCHANGED <<result, reads>>
                              ELSE IF entry.claudeProjects.exists
                                THEN /\ result' = Append(result,
                                            [label |-> JoinWith(Append(frame.labelParts, entry.name), <<"_">>),
                                             projects |-> entry.claudeProjects])
                                     /\ sessions' = stack
                                     /\ UNCHANGED reads
                              ELSE IF Descends(entry)
                                THEN LET e == LamsEnter(stack, entry.to, frame.depth + 1,
                                                        Append(frame.labelParts, entry.name))
                                     IN /\ sessions' = e.stack
                                        /\ reads' = reads \o e.listed
                                        /\ UNCHANGED result
                              ELSE sessions' = stack /\ UNCHANGED <<result, reads>>
    /\ UNCHANGED <<adapter, input, idx, sidx, detected, currentId, yielded,
                 pulls, previous>>

NextLams == LamsCall \/ LamsWalk

\* LAMS trees of two directories that may link to each other and to
\* themselves: each holds up to two entries, a long name and a local_ name,
\* each a plain file, a directory leading to either of the two, or a
\* directory with .claude/projects; and the tree of the other inputs
LinkChoices == {"none", "file", "first", "second", "projects"}
LinkEntry(name, choice) ==
    IF choice = "none" THEN <<>>
    ELSE IF choice = "file" THEN <<LamsEntry(name, "file", 1, NoDir)>>
    ELSE IF choice = "first" THEN <<LamsEntry(name, "dir", 1, NoDir)>>
    ELSE IF choice = "second" THEN <<LamsEntry(name, "dir", 2, NoDir)>>
    ELSE <<LamsEntry(name, "dir", 1, Dir(<<>>))>>
LinkedDir(long, local) ==
    [listable |-> TRUE, entries |-> LinkEntry(Workspace, long) \o LinkEntry(LocalA, local)]
LamsTrees ==
    {Lams(<<LinkedDir(c[1], c[2]), LinkedDir(c[3], c[4])>>) : c \in [1..4 -> LinkChoices]}
    \cup {Lams(<<LinkedDir("second", "none"), [listable |-> FALSE, entries |-> <<>>]>>),
          LamsSmall}

InitLams == \E t \in LamsTrees : StartParse("lams", t)
SpecLams == InitLams /\ [][NextLams]_vars
\* every call and every loop turn that can be taken is taken
FairLams == SpecLams /\ WF_vars(LamsCall) /\ WF_vars(LamsWalk)

\* C22: the search ends on every directory structure, cyclic ones
\* included, and every directory it lists is nested at most 5 levels below
\* the LAMS root.
C22_DepthBounded ==
    /\ [](adapter = "lams" => \A i \in 1..Len(reads) : reads[i].depth <= LamsMaxDepth)
    /\ <>(adapter = "lams" => pc = "done")

\* a directory that links to itself has been listed at every depth
C22_Witness ==
    /\ adapter = "lams" /\ pc = "done"
    /\ \E i \in 1..Len(input.dirs[1].entries) :
          input.dirs[1].entries[i].kind = "dir" /\ input.dirs[1].entries[i].to = 1
             /\ ~input.dirs[1].entries[i].claudeProjects.exists
    /\ \A d \in 0..LamsMaxDepth : \E i \in 1..Len(reads) : reads[i] = Listing(1, d)
    /\ result = findClaudeProjectsRecursive(input.dirs, 1, LamsMaxDepth, 0, <<>>)

\* ---------------------------------------------------------------- LAMS labels
\* a .claude/projects directory with one project of one session log
OneSession(slug, file) ==
    Dir(<<Entry(slug, "dir", TRUE, <<LogFile(file, TRUE, GoodLines, NoDir)>>)>>)
ProjectChoices ==
    {NoDir} \cup {OneSession(slug, file) : slug \in {SlugCode, SlugData}, file \in {FileS1, FileS2}}
NamedProject(name, projects) ==
    IF projects.exists THEN <<LamsEntry(name, "dir", 1, projects)>> ELSE <<>>
\* under the LAMS root: local_a1b2 (a directory holding workspace),
\* local_a1b2_workspace and workspace, each of the three workspaces with
\* .claude/projects or not there
LabelTrees ==
    {Lams(<<[listable |-> TRUE,
             entries |-> (IF nested THEN <<LamsEntry(LocalA, "dir", 2, NoDir)>> ELSE <<>>)
                         \o NamedProject(LocalAWorkspace, p[1])
                         \o NamedProject(Workspace, p[2])],
            [listable |-> TRUE, entries |-> NamedProject(Workspace, p[3])]>>) :
        nested \in BOOLEAN, p \in [1..3 -> ProjectChoices]}
LabelDisks == {Disk("other", Root(NoDir, t, NoJson), NoRoot, NoRoot) : t \in LabelTrees}

InitLabels == \E d \in LabelDisks : StartParse("cowork", d)
SpecLabels == InitLabels /\ [][NextCowork]_vars

LamsFound == findClaudeProjectsRecursive(SourceRoot.lams.dirs, 1, LamsMaxDepth, 0, <<>>)

\* C23: the projects directories the search finds at different paths get
\* different labels, hence different project keys for the same slug, and
\* at the end every session of every one of them has been yielded under
\* the key of its own origin.
C23_LabelsDisambiguate ==
    (adapter = "cowork" /\ SourceRoot.lams.exists) =>
       /\ \A i, j \in 1..Len(LamsFound) : i # j => LamsFound[i].label # LamsFound[j].label
       /\ pc = "done" =>
             \A i \in 1..Len(LamsFound) :
                \A e \in 1..Len(LamsFound[i].projects.entries) :
                   LET entry == LamsFound[i].projects.entries[e]
                   IN \A f \in 1..Len(entry.files) :
                         \E y \in 1..Len(yielded) :
                            /\ yielded[y].project_source_id = LamsKey(LamsFound[i].label, entry.name)
                            /\ yielded[y].source_id = Basename(entry.files[f].name)

\* ---------------------------------------------------------------- linearization ends
\* C27: the walk of linearizeDAG ends on every finite mapping, also when
\* the child lists form a cycle or name missing nodes: it emits no node
\* twice, hence never more nodes than the mapping has.
C27_EachNodeOnce ==
    (adapter = "chatgpt" /\ pc \in {"walk", "next", "done"} /\ idx <= Len(input)) =>
       /\ \A i, j \in 1..Len(result) : i # j => result[i] # result[j]
       /\ Len(result) <= Len(input[idx].mapping)

\* ---------------------------------------------------------------- order within a log
\* the record lines of the logs of a session: the main log and each subagent log
SessionLogs(info) ==
    {info.mainFile.lines}
    \cup {info.subagentFiles[i].lines : i \in 1..Len(info.subagentFiles)}
InLog(lines, id) == \E k \in 1..Len(lines) : lines[k].k = "rec" /\ lines[k].uuid = id
PlaceIn(lines, id) == CHOOSE k \in 1..Len(lines) : lines[k].k = "rec" /\ lines[k].uuid = id

\* C28: two messages read from the same log file (the main log or one
\* subagent log) keep in the emitted conversation the order they have in
\* that file; a session without subagent logs is emitted in the order of
\* the records of its main log.
C28_LogOrderKept ==
    (adapter = "cowork" /\ Len(sessions) = 1 /\ yielded # <<>>) =>
    LET info == sessions[1].info
        msgs == yielded[1].messages
    IN \A lines \in SessionLogs(info) :
          \A i, j \in 1..Len(msgs) :
             (i < j /\ InLog(lines, msgs[i].source_id) /\ InLog(lines, msgs[j].source_id))
                => PlaceIn(lines, msgs[i].source_id) < PlaceIn(lines, msgs[j].source_id)

\* ---------------------------------------------------------------- session ids
\* C29: in one parse run of the Claude Code or the Cowork adapter every
\* yielded conversation stands for a session log file of its own, and no
\* two of them have the same provider and source_id.
C29_DistinctIds ==
    adapter \in {"claude-code", "cowork"} =>
       \A i, j \in 1..Len(yielded) :
          i # j => \/ yielded[i].provider # yielded[j].provider
                   \/ yielded[i].source_id # yielded[j].source_id

\* ---------------------------------------------------------------- database
\* The tables of schema.ts as sequences of rows in rowid order; seq holds the
\* AUTOINCREMENT counters. In the runs below `sessions` is the database file,
\* `reads` the projectIdMap of runImport, `yielded` the conversations array
\* it collects, `result` the ImportResult (or the value a tool returned) and
\* `previous` the database and report the earlier import left.
NoRow == 0     \* SQL NULL in an integer column; row ids start at 1
EmptyDb ==
    [projects |-> <<>>, conversations |-> <<>>, messages |-> <<>>, memories |-> <<>>,
     progress |-> {}, cache |-> <<>>, log |-> <<>>,
     seq |-> [projects |-> 0, conversations |-> 0, messages |-> 0, memories |-> 0]]

\* a JSON object or boolean where the export should hold a string: truthy, so
\* `conv.title || "Untitled"` keeps it, and better-sqlite3 refuses to bind it
ObjectValue == "[object Object]"
Binds(v) == v # ObjectValue

RowOf(rows, provider, sourceId) ==
    CHOOSE i \in 1..Len(rows) : rows[i].provider = provider /\ rows[i].source_id = sourceId
HasRow(rows, provider, sourceId) ==
    \E i \in 1..Len(rows) : rows[i].provider = provider /\ rows[i].source_id = sourceId

\* INSERT INTO projects ... ON CONFLICT(provider, source_id) DO UPDATE ... RETURNING id
insertProject(db, project) ==
    IF ~Binds(project.name) THEN [threw |-> TRUE, db |-> db, id |-> NoRow]
    ELSE IF HasRow(db.projects, project.provider, project.source_id)
      THEN LET i == RowOf(db.projects, project.provider, project.source_id)
           IN [threw |-> FALSE,
               db |-> [db EXCEPT !.projects[i].name = project.name],
               id |-> db.projects[i].id]
      ELSE LET id == db.seq.projects + 1
           IN [threw |-> FALSE,
               db |-> [db EXCEPT !.projects = Append(@, [id |-> id, provider |-> project.provider,
                                                         source_id |-> project.source_id,
                                                         name |-> project.name,
                                                         conversation_count |-> 0]),
                                 !.seq.projects = id],
               id |-> id]

updateProjectConversationCount(db, projectId, count) ==
    [db EXCEPT !.projects = [i \in 1..Len(@) |->
                                IF @[i].id = projectId
                                  THEN [@[i] EXCEPT !.conversation_count = count]
                                  ELSE @[i]]]

ConversationRow(id, conv, projectId) ==
    [id |-> id, provider |-> conv.provider, source_id |-> conv.source_id,
     title |-> conv.title, message_count |-> conv.message_count, project_id |-> projectId]

\* INSERT INTO conversations ... ON CONFLICT(provider, source_id) DO UPDATE ... RETURNING id
insertConversation(db, conv, projectId) ==
    IF ~Binds(conv.title) THEN [threw |-> TRUE, db |-> db, id |-> NoRow]
    ELSE IF HasRow(db.conversations, conv.provider, conv.source_id)
      THEN LET i == RowOf(db.conversations, conv.provider, conv.source_id)
               id == db.conversations[i].id
           IN [threw |-> FALSE,
               db |-> [db EXCEPT !.conversations[i] = ConversationRow(id, conv, projectId)],
               id |-> id]
      ELSE LET id == db.seq.conversations + 1
           IN [threw |-> FALSE,
               db |-> [db EXCEPT !.conversations = Append(@, ConversationRow(id, conv, projectId)),
                                 !.seq.conversations = id],
               id |-> id]

\* DELETE FROM messages WHERE conversation_id = ?
deleteMessagesForConversation_Keep(db, conversationId) == db
deleteMessagesForConversation(db, conversationId) ==
    [db EXCEPT !.messages = SelectSeq(@, LAMBDA row : row.conversation_id # conversationId)]

\* INSERT INTO messages ...
insertMessage(db, conversationId, msg, sequenceOrder) ==
    LET id == db.seq.messages + 1
    IN [db EXCEPT !.messages = Append(@, [id |-> id, conversation_id |-> conversationId,
                                          role |-> msg.role, content |-> msg.text,
                                          sequence_order |-> sequenceOrder]),
                  !.seq.messages = id]

\* the for loop over conv.messages, from message i on
RECURSIVE InsertMessagesFrom(_, _, _, _)
InsertMessagesFrom(db, conversationId, messages, i) ==
    IF i > Len(messages) THEN db
    ELSE InsertMessagesFrom(insertMessage(db, conversationId, messages[i], i - 1),
                            conversationId, messages, i + 1)

\* DELETE FROM profile_cache
invalidateProfileCache(db) == [db EXCEPT !.cache = <<>>]
\* DELETE FROM memory_build_progress
clearMemoryBuildProgress(db) == [db EXCEPT !.progress = {}]
\* INSERT INTO import_log ...
insertImportLog(db, r) ==
    [db EXCEPT !.log = Append(@, [conversations_imported |-> r.conversations_imported,
                                  messages_imported |-> r.messages_imported,
                                  projects_imported |-> r.projects_imported])]

\* ---------------------------------------------------------------- runImport
ImportResult(provider) ==
    [provider |-> provider, conversations_imported |-> 0, conversations_skipped |-> 0,
     messages_imported |-> 0, projects_imported |-> 0, errors |-> <<>>]

\* the catch of the per-conversation try
Skipped_Uncounted(r, conv) ==
    [r EXCEPT !.errors = Append(@, <<"Conversation", conv.source_id>>)]
Skipped(r, conv) ==
    [r EXCEPT !.errors = Append(@, <<"Conversation", conv.source_id>>),
              !.conversations_skipped = @ + 1]

\* the body of the per-conversation try
PersistConversation(db, conv, projectIdMap) ==
    LET projectId == IF conv.project_source_id # Undef /\ MapHas(projectIdMap, conv.project_source_id)
                       THEN MapGet(projectIdMap, conv.project_source_id)
                       ELSE NoRow
        ins == insertConversation(db, conv, projectId)
    IN IF ins.threw THEN [threw |-> TRUE, db |-> db]
       ELSE [threw |-> FALSE,
             db |-> InsertMessagesFrom(deleteMessagesForConversation(ins.db, ins.id),
                                       ins.id, conv.messages, 1)]

\* the loop over projectIdMap after the conversations
RECURSIVE UpdateCounts(_, _, _, _)
UpdateCounts(db, projectIdMap, conversations, i) ==
    IF i > Len(projectIdMap) THEN db
    ELSE UpdateCounts(
            updateProjectConversationCount(db, projectIdMap[i].value,
                Cardinality({k \in 1..Len(conversations) :
                               conversations[k].project_source_id = projectIdMap[i].key})),
            projectIdMap, conversations, i + 1)

\* new ConversationDatabase(dbPath) and the fresh report
ImportOpen ==
    /\ adapter = "import" /\ pc = "next"
    /\ sessions' = IF sessions = <<>> THEN EmptyDb ELSE sessions
    /\ result' = ImportResult(input.provider)
    /\ reads' = <<>>
    /\ idx' = 1
    /\ pc' = "projects"
    /\ UNCHANGED <<adapter, input, sidx, detected, currentId, yielded, pulls, previous>>

\* one turn of the for await over adapter.parseProjects, or its end
ImportProject ==
    /\ adapter = "import" /\ pc = "projects"
    /\ IF idx <= Len(input.projects)
         THEN LET project == input.projects[idx]
                  ins == insertProject(sessions, project)
              IN /\ sessions' = ins.db
                 /\ IF ins.threw
                      THEN /\ result' = [result EXCEPT !.errors =
                                            Append(@, <<"Project", project.source_id>>)]
                           /\ UNCHANGED reads
                      ELSE /\ result' = [result EXCEPT !.projects_imported = @ + 1]
                           /\ reads' = MapSet(reads, project.source_id, ins.id)
                 /\ idx' = idx + 1
                 /\ UNCHANGED pc
         ELSE /\ pc' = "collect"
              /\ UNCHANGED <<sessions, result, reads, idx>>
    /\ UNCHANGED <<adapter, input, sidx, detected, currentId, yielded, pulls, previous>>

\* the for await over adapter.parse that fills the conversations array; an
\* error of the adapter leaves runImport through its finally blocks
ImportCollect ==
    /\ adapter = "import" /\ pc = "collect"
    /\ IF input.parseThrows
         THEN pc' = "thrown" /\ UNCHANGED <<yielded, idx>>
         ELSE pc' = "persist" /\ yielded' = input.conversations /\ idx' = 1
    /\ UNCHANGED <<adapter, input, sidx, sessions, detected, currentId, result, pulls,
                 reads, previous>>

\* one turn of the for loop inside db.transaction: the try and its catch
ImportConversation ==
    /\ adapter = "import" /\ pc = "persist"
    /\ idx <= Len(yielded)
    /\ LET conv == yielded[idx]
           p == PersistConversation(sessions, conv, reads)
       IN /\ sessions' = p.db
          /\ result' = IF p.threw
                         THEN Skipped(result, conv)
                         ELSE [result EXCEPT !.messages_imported = @ + Len(conv.messages),
                                             !.conversations_imported = @ + 1]
    /\ idx' = idx + 1
    /\ UNCHANGED <<adapter, input, pc, sidx, detected, currentId, yielded, pulls, reads,
                 previous>>

\* the rest of runImport: the project counts, the cache, the progress, the log
ImportFinish ==
    /\ adapter = "import" /\ pc = "persist"
    /\ idx > Len(yielded)
    /\ sessions' = insertImportLog(
                      clearMemoryBuildProgress(
                         invalidateProfileCache(UpdateCounts(sessions, reads, yielded, 1))),
                      result)
    /\ pc' = "done"
    /\ UNCHANGED <<adapter, input, idx, sidx, detected, currentId, result, yielded, pulls,
                 reads, previous>>

\* the export as the user edited it before importing again: other titles,
\* other messages, the same ids
Edited(export) ==
    [export EXCEPT !.conversations =
        [i \in 1..Len(@) |-> [@[i] EXCEPT !.title = IF Binds(@) THEN "t3" ELSE @,
                                         !.messages = <<[role |-> "user", text |-> "c"]>>,
                                         !.message_count = 1]]]

\* runImport once more on the same database file
ImportAgain ==
    /\ adapter = "import" /\ pc = "done"
    /\ previous = <<>>
    /\ previous' = <<[db |-> sessions, result |-> result, input |-> input]>>
    /\ input' \in {input, Edited(input)}
    /\ pc' = "next"
    /\ UNCHANGED <<adapter, idx, sidx, sessions, detected, currentId, result, yielded,
                 pulls, reads>>

NextImport ==
    ImportOpen \/ ImportProject \/ ImportCollect \/ ImportConversation \/ ImportFinish
    \/ ImportAgain

\* what an adapter may hand to runImport: up to MaxYield conversations, a
\* source id possibly twice, a title possibly unbindable, with or without a
\* project reference, and at most one project, its name possibly unbindable
MaxYield == 2
YieldedConv(sourceId, title, project, texts) ==
    [provider |-> "chatgpt", source_id |-> sourceId, title |-> title,
     project_source_id |-> project, message_count |-> Len(texts),
     messages |-> [i \in 1..Len(texts) |-> [role |-> "user", text |-> texts[i]]]]
YieldedConvs ==
    {YieldedConv(s, t, p, m) : s \in {"c1", "c2"}, t \in {"t1", "t2", ObjectValue},
                               p \in {Undef, "g-1"}, m \in {<<"a">>, <<"a", "b">>}}
YieldedProjects ==
    {<<>>} \cup {<<[provider |-> "chatgpt", source_id |-> "g-1", name |-> n]>> :
                   n \in {"n1", ObjectValue}}
Exports ==
    {[provider |-> "chatgpt", projects |-> ps, conversations |-> cs, parseThrows |-> th] :
        ps \in YieldedProjects, cs \in SeqsUpTo(YieldedConvs, MaxYield), th \in BOOLEAN}

InitImport == \E e \in Exports : StartParse("import", e)
SpecImport == InitImport /\ [][NextImport]_vars

\* ---------------------------------------------------------------- upsert
SameKey(a, b) == a.provider = b.provider /\ a.source_id = b.source_id
\* the message texts stored for a conversation, in table order
MessagesOf(db, conversationId) ==
    SelectSeq(db.messages, LAMBDA row : row.conversation_id = conversationId)
\* the rows of a database with the message row ids left out
Stored(db) ==
    [conversations |-> {db.conversations[i] : i \in 1..Len(db.conversations)},
     messages |-> {[conversation_id |-> db.messages[i].conversation_id,
                    role |-> db.messages[i].role,
                    content |-> db.messages[i].content,
                    sequence_order |-> db.messages[i].sequence_order] :
                      i \in 1..Len(db.messages)}]
\* the row of conv holds conv's fields, and its messages are conv's messages
HoldsConv(db, conv) ==
    \E i \in 1..Len(db.conversations) :
       LET row == db.conversations[i]
           msgs == MessagesOf(db, row.id)
       IN /\ SameKey(row, conv)
          /\ row.title = conv.title
          /\ row.message_count = conv.message_count
          /\ Len(msgs) = Len(conv.messages)
          /\ \A k \in 1..Len(msgs) : /\ msgs[k].content = conv.messages[k].text
                                     /\ msgs[k].sequence_order = k - 1
\* conversation i of the array is the last one with its key that can be stored
LastStorable(convs, i) ==
    /\ Binds(convs[i].title)
    /\ \A j \in (i + 1)..Len(convs) : ~(SameKey(convs[j], convs[i]) /\ Binds(convs[j].title))

\* C24: persistence is an upsert on (provider, source_id): the database never
\* holds two conversation rows with one (provider, source_id); importing again
\* keeps the row id of every conversation, leaves each row with the fields and
\* exactly the messages of the conversation imported last under its key, and
\* importing the same export twice leaves the conversations and messages that
\* importing it once left.
C24_Upsert ==
    adapter = "import" /\ sessions # <<>> =>
       /\ \A i, j \in 1..Len(sessions.conversations) :
             i # j => ~SameKey(sessions.conversations[i], sessions.conversations[j])
       /\ pc = "done" =>
             \A i \in 1..Len(yielded) : LastStorable(yielded, i) => HoldsConv(sessions, yielded[i])
       /\ (pc = "done" /\ previous # <<>>) =>
             /\ \A i \in 1..Len(previous[1].db.conversations) :
                   /\ i <= Len(sessions.conversations)
                   /\ sessions.conversations[i].id = previous[1].db.conversations[i].id
                   /\ SameKey(sessions.conversations[i], previous[1].db.conversations[i])
             /\ input = previous[1].input => Stored(sessions) = Stored(previous[1].db)

\* the same export imported a second time: its conversations were upserted and
\* their message rows deleted and inserted anew
C24_Witness ==
    /\ adapter = "import" /\ pc = "done" /\ previous # <<>>
    /\ input = previous[1].input
    /\ Len(sessions.conversations) = 2
    /\ sessions.seq.messages > previous[1].db.seq.messages
    /\ Len(sessions.messages) = Len(previous[1].db.messages)

\* ---------------------------------------------------------------- import report
Throwing(items, field) == {i \in 1..Len(items) : ~Binds(items[i][field])}

\* C25: runImport goes on after an item failed to persist: each failure adds
\* one error to the report, every project and conversation after it is still
\* stored, and conversations_imported + conversations_skipped counts the
\* conversations handled so far, so at the end the sum is the number of
\* conversations the adapter yielded.
C25_ErrorsAggregated ==
    adapter = "import" /\ pc \in {"persist", "done"} =>
       /\ result.conversations_imported + result.conversations_skipped
             = IF pc = "done" THEN Len(input.conversations) ELSE idx - 1
       /\ result.conversations_skipped
             = Cardinality({i \in Throwing(yielded, "title") : i < idx})
       /\ Len(result.errors)
             = Cardinality(Throwing(input.projects, "name"))
               + result.conversations_skipped
       /\ result.projects_imported
             = Len(input.projects) - Cardinality(Throwing(input.projects, "name"))
       /\ \A i \in 1..Len(yielded) :
             (i < idx /\ Binds(yielded[i].title)) =>
                HasRow(sessions.conversations, yielded[i].provider, yielded[i].source_id)

\* the first conversation failed to persist and the second one was stored
C25_Witness ==
    /\ adapter = "import" /\ pc = "done"
    /\ Len(yielded) = 2
    /\ ~Binds(yielded[1].title) /\ Binds(yielded[2].title)
    /\ result.conversations_imported = 1 /\ result.conversations_skipped = 1
    /\ Len(result.errors) >= 1
    /\ HasRow(sessions.conversations, yielded[2].provider, yielded[2].source_id)

\* ---------------------------------------------------------------- memory tools
MEMORY_CATEGORIES ==
    <<"response_preference", "personal", "professional", "interest", "topic_highlight",
      "insight">>

\* insertMemories: one transaction that inserts every item
RECURSIVE insertMemories(_, _)
insertMemories(db, memories) ==
    IF memories = <<>> THEN db
    ELSE LET id == db.seq.memories + 1
         IN insertMemories(
               [db EXCEPT !.memories = Append(@, [id |-> id, category |-> Head(memories).category,
                                                  content |-> Head(memories).content]),
                          !.seq.memories = id],
               Tail(memories))

ConversationIds(db) == {db.conversations[i].id : i \in 1..Len(db.conversations)}

\* markConversationsProcessed: one transaction of INSERT OR IGNORE statements.
\* conversation_id REFERENCES conversations(id) and foreign_keys is ON: OR
\* IGNORE skips an id already marked, but an id of no conversation fails the
\* statement, and the transaction is rolled back
markConversationsProcessed(db, ids) ==
    IF \E i \in 1..Len(ids) : ids[i] \notin ConversationIds(db)
      THEN [threw |-> TRUE, db |-> db]
      ELSE [threw |-> FALSE,
            db |-> [db EXCEPT !.progress = @ \cup {ids[i] : i \in 1..Len(ids)}]]

\* DELETE FROM memories
deleteAllMemories(db) == [db EXCEPT !.memories = <<>>]
getUnprocessedConversationIds(db) == ConversationIds(db) \ db.progress
getUnprocessedCount(db) == Cardinality(getUnprocessedConversationIds(db))

\* the "- item" lines of the profile: for each category in turn, the stored
\* memories of that category in id order
RECURSIVE ProfileLines(_, _)
ProfileLines(memories, categories) ==
    IF categories = <<>> THEN <<>>
    ELSE LET items == SelectSeq(memories, LAMBDA m : m.category = Head(categories))
         IN [i \in 1..Len(items) |-> <<items[i].category, items[i].content>>]
            \o ProfileLines(memories, Tail(categories))

EmptyProfile == [lines |-> <<>>, processed |-> 0, total |-> 0, empty |-> TRUE]
assembleProfileFromMemories(db) ==
    IF db.memories = <<>> THEN EmptyProfile
    ELSE [lines |-> ProfileLines(db.memories, MEMORY_CATEGORIES),
          processed |-> Cardinality(db.progress),
          total |-> Len(db.conversations),
          empty |-> FALSE]

hasMemories(db) == Len(db.memories) > 0

\* the cached profile if there is one, else the assembled one, which is cached
getOrAssembleProfile(db) ==
    IF db.cache # <<>> THEN [profile |-> db.cache[1], source |-> "cache", db |-> db]
    ELSE IF hasMemories(db)
      THEN LET profile == assembleProfileFromMemories(db)
           IN [profile |-> profile, source |-> "memories",
               db |-> [db EXCEPT !.cache = <<profile>>]]
      ELSE [profile |-> EmptyProfile, source |-> "none", db |-> db]

\* what executeTool gave: the value returned, or the error it threw
Returned(tool, value) == [tool |-> tool, threw |-> FALSE, value |-> value]
Threw(tool) == [tool |-> tool, threw |-> TRUE, value |-> <<>>]

MaxCalls == 4      \* tool calls in one run
MaxBatch == 2      \* memories, and conversation ids, in one save_memories call
MaxMemories == 3   \* memory rows the table may hold
Calling == adapter = "tools" /\ pc = "ready" /\ idx < MaxCalls

GetUserProfile ==
    /\ Calling
    /\ LET got == getOrAssembleProfile(sessions)
       IN /\ sessions' = got.db
          /\ result' = IF got.source = "none"
                         THEN Returned("get_user_profile",
                                       [status |-> "no_profile", profile |-> EmptyProfile,
                                        conversations_available |-> getUnprocessedCount(sessions)])
                         ELSE Returned("get_user_profile",
                                       [status |-> Undef, profile |-> got.profile,
                                        conversations_available |-> 0])
    /\ idx' = idx + 1
    /\ UNCHANGED <<adapter, input, pc, sidx, detected, currentId, yielded, pulls, reads,
                 previous>>

RegenerateProfile ==
    /\ Calling
    /\ sessions' = invalidateProfileCache(clearMemoryBuildProgress(deleteAllMemories(sessions)))
    /\ result' = Returned("regenerate_profile",
                          [conversations_available |-> getUnprocessedCount(sessions')])
    /\ idx' = idx + 1
    /\ UNCHANGED <<adapter, input, pc, sidx, detected, currentId, yielded, pulls, reads,
                 previous>>

\* getProfileOverview reads the database and writes nothing
Depths == {Undef, "quick", "standard", "deep"}
BuildUserProfile ==
    /\ Calling
    /\ \E depth \in Depths :
          result' = IF getUnprocessedConversationIds(sessions) = {}
                      THEN Returned("build_user_profile",
                                    [status |-> "complete",
                                     profile |-> assembleProfileFromMemories(sessions)])
                      ELSE Returned("build_user_profile",
                                    [status |-> "overview",
                                     conversation_ids |-> getUnprocessedConversationIds(sessions),
                                     instructions |-> IF depth = Undef THEN "quick" ELSE depth])
    /\ idx' = idx + 1
    /\ UNCHANGED <<adapter, input, pc, sidx, sessions, detected, currentId, yielded, pulls,
                 reads, previous>>

\* the arguments the input schema lets through: memories of the listed
\* categories, and any integers as conversation ids
MemoryChoices ==
    {[category |-> "personal", content |-> "m1"], [category |-> "interest", content |-> "m2"],
     [category |-> "personal", content |-> "m3"]}
IdChoices == 1..(MaxConvs + 1)

SaveMemories ==
    /\ Calling
    /\ \E memories \in SeqsUpTo(MemoryChoices, MaxBatch),
          conversation_ids_processed \in SeqsUpTo(IdChoices, MaxBatch) :
          /\ Len(sessions.memories) + Len(memories) <= MaxMemories
          /\ LET saved == insertMemories(sessions, memories)
                 marked == IF Len(conversation_ids_processed) > 0
                             THEN markConversationsProcessed(saved, conversation_ids_processed)
                             ELSE [threw |-> FALSE, db |-> saved]
             IN IF marked.threw
                  THEN /\ sessions' = marked.db
                       /\ result' = Threw("save_memories")
                  ELSE /\ sessions' = invalidateProfileCache(marked.db)
                       /\ result' = Returned("save_memories",
                             [memories_saved |-> Len(memories),
                              conversations_marked_processed |-> Len(conversation_ids_processed),
                              remaining_unprocessed |-> getUnprocessedCount(marked.db)])
    /\ idx' = idx + 1
    /\ UNCHANGED <<adapter, input, pc, sidx, detected, currentId, yielded, pulls, reads,
                 previous>>

NextTools == GetUserProfile \/ RegenerateProfile \/ BuildUserProfile \/ SaveMemories

\* a database into which n conversations were imported
ImportedDb(n) ==
    [EmptyDb EXCEPT !.conversations =
                       [i \in 1..n |-> [id |-> i, provider |-> "chatgpt", source_id |-> <<"c", i>>,
                                        title |-> "t1", message_count |-> 1,
                                        project_id |-> NoRow]],
                    !.seq.conversations = n]

InitTools ==
    \E n \in 0..MaxConvs :
       /\ adapter = "tools" /\ input = n /\ pc = "ready"
       /\ idx = 0 /\ sidx = 1
       /\ sessions = ImportedDb(n)
       /\ detected = "none" /\ currentId = 0
       /\ result = Returned("none", <<>>)
       /\ yielded = <<>> /\ pulls = 0 /\ reads = <<>> /\ previous = <<>>
SpecTools == InitTools /\ [][NextTools]_vars

\* ---------------------------------------------------------------- profile cache
Lists(profile, memory) ==
    \E k \in 1..Len(profile.lines) : profile.lines[k] = <<memory.category, memory.content>>

\* C26: get_user_profile returns no_profile exactly when no memory is stored,
\* and otherwise a profile that lists every memory stored at that moment;
\* after regenerate_profile no memory is stored, no profile is cached and
\* every conversation is unprocessed.
C26_NeverStale ==
    adapter = "tools" =>
       /\ result.tool = "get_user_profile" =>
             /\ (result.value.status = "no_profile") <=> (sessions.memories = <<>>)
             /\ result.value.status # "no_profile" =>
                   \A i \in 1..Len(sessions.memories) :
                      Lists(result.value.profile, sessions.memories[i])
       /\ result.tool = "regenerate_profile" =>
             /\ getOrAssembleProfile(sessions).source = "none"
             /\ getUnprocessedConversationIds(sessions) = ConversationIds(sessions)

\* ---------------------------------------------------------------- save_memories
\* C30: a save_memories call that fails leaves the database as it was: no
\* memory stored, no conversation marked processed, the profile cache as
\* before.
C30_AllOrNothing ==
    [][(adapter = "tools" /\ idx' # idx /\ result'.tool = "save_memories" /\ result'.threw)
          => /\ sessions'.memories = sessions.memories
             /\ sessions'.progress = sessions.progress
             /\ sessions'.cache = sessions.cache]_vars

====
